---------------------------- MODULE Spec2Model ----------------------------
(***************************************************************************)
(* Model of DrugInteractionGraph (src/drug_interaction_graph.py): an       *)
(* undirected igraph.Graph whose vertices are drugs and whose edges carry  *)
(* an interaction condition, with the auxiliary index _name_to_vertex.     *)
(*                                                                         *)
(* Strings that the program normalises are sequences of one-character      *)
(* strings, so that strip() and lower() are computed and not assumed.      *)
(* Vertex and edge ids are 0-based as in igraph; vs[v + 1] is vertex v.    *)
(*                                                                         *)
(* With it, the embedding index that maps drug names                       *)
(* (src/drug_embedding_generator.py, src/app/core/drug_mapper.py), the     *)
(* medicine cabinet (src/app/core/medicine_cabinet.py), the agents and     *)
(* their manager (src/app/agents/drug_agent.py, src/app/core/agent.py)     *)
(* and the agent workflow (src/app/agents/graph.py).                       *)
(***************************************************************************)
EXTENDS Integers, Sequences, FiniteSets, TLC

VARIABLES
    vs,              \* graph.vs: sequence of [name, name_normalized, id]
    es,              \* graph.es: sequence of [source, target, condition]
    name_to_vertex,  \* self._name_to_vertex: normalized name -> vertex id
    file,            \* the GraphML file written by export_to_graphml
    last,            \* the call that ran last: its name, the exception it
                     \* raised; of add_interaction the branch it took and
                     \* whether it named the later vertex first (v1 > v2);
                     \* of a bulk load the rows it read and the count it
                     \* returned.  What a query
                     \* returns is the value of its operator on the graph.
    disk,            \* the embedding artifact: <base>_mapper.pkl,
                     \* <base>_mapping.json and <base>_embeddings.npy
    mappers,         \* the DrugNameMapper objects that exist, by identity
    drug_mapper,     \* the module global _drug_mapper: 0 for None, else
                     \* the identity of a DrugNameMapper
    mlast,           \* the call to the drug mapper that ran last
    threads,         \* the threads that are inside a call: where each is
                     \* and its local variables
    encoder,         \* what the sentence transformer of the process gives
                     \* the names it is asked to encode
    cabinets,        \* MedicineCabinetManager.cabinets: the set of drug
                     \* names of each user (a missing key reads as set())
    interaction_results,  \* MedicineCabinetManager.interaction_results:
                     \* of the users that have a key, the list of results
                     \* of each drug that has a key
    clast,           \* the call to the medicine cabinet that ran last
    agents,          \* the DrugInteractionAgent objects that exist, by
                     \* identity
    agent,           \* AgentManager.agent: 0 for None, else the identity
                     \* of a DrugInteractionAgent
    sessions,        \* AgentManager.sessions: the agent of each session id
    query_answers,   \* AgentManager.query_answers: the answer saved for
                     \* each session id that has one
    alast,           \* the call to the agent manager or to an agent that
                     \* ran last
    live,            \* history: of each session id that was created and
                     \* not cleared since, the agent that the call which
                     \* created it returned
    run              \* the run of the agent workflow: whether it is
                     \* running, the node that runs next, the nodes that
                     \* ran, and the workflow state

graphVars == <<vs, es, name_to_vertex, file, last>>

mapperVars == <<disk, mappers, drug_mapper, mlast>>

cabinetVars == <<cabinets, interaction_results, clast>>

agentVars == <<agents, agent, sessions, query_answers, alast, live>>

appVars == <<encoder, cabinetVars, agentVars, run>>

vars == <<graphVars, mapperVars, threads, appVars>>

---------------------------------------------------------------------------
(* Bounds of the model *)

\* add_interaction is not taken when it would leave more edges than this
MaxEdges == 2

\* a bulk load reads at most this many rows
MaxRows == 2

\* the vocabulary of the embedding index has at most this many names
MaxVocab == 2

---------------------------------------------------------------------------
(* Values *)

\* Python's None where a string is expected as a drug name
NoneName == <<"<None>">>

\* Python's None as a condition or as a return value
None == "None"

\* a vertex attribute that was never set (igraph reports None)
NoId == <<>>

\* the file has not been written
NoFile == [written |-> FALSE, nodes |-> <<>>, edges |-> <<>>]

\* drug names passed by callers: three drugs, the first also in another case
\* behind leading whitespace, the second with trailing whitespace
Names ==
    { <<"a">>, <<" ", "A">>, <<"b", " ">>, <<"c">> }

\* interaction conditions passed by callers
Conditions == { "c1", "c2" }

---------------------------------------------------------------------------
(* str.strip() and str.lower() *)

IsSpace(ch) == ch = " "

RECURSIVE LStrip(_)
LStrip(s) ==
    IF s = <<>> THEN s
    ELSE IF IsSpace(Head(s)) THEN LStrip(Tail(s)) ELSE s

RECURSIVE RStrip(_)
RStrip(s) ==
    IF s = <<>> THEN s
    ELSE IF IsSpace(s[Len(s)]) THEN RStrip(SubSeq(s, 1, Len(s) - 1)) ELSE s

Strip(s) == RStrip(LStrip(s))

LowerChar(ch) ==
    CASE ch = "A" -> "a"
      [] ch = "B" -> "b"
      [] ch = "C" -> "c"
      [] OTHER -> ch

Lower(s) == [i \in 1..Len(s) |-> LowerChar(s[i])]

\* _normalize_name with lower() left out
NormalizeNameNoLower(name) == Strip(name)

\* _normalize_name: name.strip().lower()
NormalizeName(name) == Lower(Strip(name))

---------------------------------------------------------------------------
(* igraph.Graph *)

\* ig.Graph(directed=True)
DirectedTrue == TRUE

\* ig.Graph(directed=False)
Directed == FALSE

Min(x, y) == IF x <= y THEN x ELSE y
Max(x, y) == IF x >= y THEN x ELSE y

\* the graph object and its index as one value
Self == [vs |-> vs, es |-> es, name_to_vertex |-> name_to_vertex]

EmptyGraph == [vs |-> <<>>, es |-> <<>>, name_to_vertex |-> <<>>]

vcount(g) == Len(g.vs)
ecount(g) == Len(g.es)

\* does edge e join v1 and v2 (in that order only, when the graph is directed)
Joins(e, v1, v2) ==
    \/ e.source = v1 /\ e.target = v2
    \/ ~Directed /\ e.source = v2 /\ e.target = v1

\* graph.get_eid(v1, v2, error=False): the id of an edge from v1 to v2, -1 if none
GetEid(g, v1, v2) ==
    IF \E i \in 1..Len(g.es) : Joins(g.es[i], v1, v2)
    THEN (CHOOSE i \in 1..Len(g.es) :
            /\ Joins(g.es[i], v1, v2)
            /\ \A j \in 1..(i - 1) : ~Joins(g.es[j], v1, v2)) - 1
    ELSE -1

\* graph.add_edge(v1, v2, condition=condition): an undirected graph reports
\* the smaller endpoint as source
AddEdge(g, v1, v2, condition) ==
    [g EXCEPT !.es = Append(@,
        IF Directed
        THEN [source |-> v1, target |-> v2, condition |-> condition]
        ELSE [source |-> Min(v1, v2), target |-> Max(v1, v2),
              condition |-> condition])]

\* graph.es[edge_id]["condition"] = condition
SetCondition(g, edge_id, condition) ==
    [g EXCEPT !.es[edge_id + 1].condition = condition]


\* graph.neighbors(vertex_id): adjacent vertex ids in ascending order, one per
\* incident edge; a self-loop lists the vertex twice
RECURSIVE NeighborsFrom(_, _, _)
NeighborsFrom(g, v, u) ==
    IF u >= vcount(g) THEN <<>>
    ELSE LET n == Cardinality({i \in 1..Len(g.es) :
                       {g.es[i].source, g.es[i].target} = {v, u}})
             k == IF u = v THEN 2 * n ELSE n
         IN [i \in 1..k |-> u] \o NeighborsFrom(g, v, u + 1)

Neighbors(g, v) == NeighborsFrom(g, v, 0)

---------------------------------------------------------------------------
(* DrugInteractionGraph *)

\* _get_or_create_vertex writing the name attribute at every call
GetOrCreateVertexRename(g, drug_name) ==
    IF drug_name = NoneName
    THEN [g |-> g, v |-> -1, exc |-> "AttributeError"]
    ELSE LET normalized == NormalizeName(drug_name)
             vertex_id == vcount(g)
         IN IF normalized \in DOMAIN g.name_to_vertex
            THEN [g |-> [g EXCEPT
                     !.vs[g.name_to_vertex[normalized] + 1].name =
                         Strip(drug_name)],
                  v |-> g.name_to_vertex[normalized], exc |-> ""]
            ELSE [g |-> [g EXCEPT
                     !.vs = Append(@, [name |-> Strip(drug_name),
                                       name_normalized |-> normalized,
                                       id |-> NoId]),
                     !.name_to_vertex =
                         [k \in DOMAIN @ \cup {normalized} |->
                             IF k = normalized THEN vertex_id ELSE @[k]]],
                  v |-> vertex_id, exc |-> ""]

\* _get_or_create_vertex looking the raw name up in the index
GetOrCreateVertexRawLookup(g, drug_name) ==
    IF drug_name = NoneName
    THEN [g |-> g, v |-> -1, exc |-> "AttributeError"]
    ELSE LET normalized == NormalizeName(drug_name)
             vertex_id == vcount(g)
         IN IF drug_name \in DOMAIN g.name_to_vertex
            THEN [g |-> g, v |-> g.name_to_vertex[drug_name], exc |-> ""]
            ELSE [g |-> [g EXCEPT
                     !.vs = Append(@, [name |-> Strip(drug_name),
                                       name_normalized |-> normalized,
                                       id |-> NoId]),
                     !.name_to_vertex =
                         [k \in DOMAIN @ \cup {normalized} |->
                             IF k = normalized THEN vertex_id ELSE @[k]]],
                  v |-> vertex_id, exc |-> ""]

\* _get_or_create_vertex: the vertex id of drug_name, creating the vertex (and
\* its index entry) when the normalized name is not in the index.  A drug_name
\* of None raises AttributeError in _normalize_name, before anything changes.
GetOrCreateVertex(g, drug_name) ==
    IF drug_name = NoneName
    THEN [g |-> g, v |-> -1, exc |-> "AttributeError"]
    ELSE LET normalized == NormalizeName(drug_name)
             vertex_id == vcount(g)
         IN IF normalized \in DOMAIN g.name_to_vertex
            THEN [g |-> g, v |-> g.name_to_vertex[normalized], exc |-> ""]
            ELSE [g |-> [g EXCEPT
                     !.vs = Append(@, [name |-> Strip(drug_name),
                                       name_normalized |-> normalized,
                                       id |-> NoId]),
                     !.name_to_vertex =
                         [k \in DOMAIN @ \cup {normalized} |->
                             IF k = normalized THEN vertex_id ELSE @[k]]],
                  v |-> vertex_id, exc |-> ""]

\* add_interaction that always creates a new edge
AddInteractionAlwaysAppend(g, drug1, drug2, condition) ==
    LET r1 == GetOrCreateVertex(g, drug1)
        r2 == GetOrCreateVertex(r1.g, drug2)
    IN IF r1.exc # "" THEN [g |-> r1.g, exc |-> r1.exc, v1 |-> -1, v2 |-> -1,
                            branch |-> "raise"]
       ELSE IF r2.exc # "" THEN [g |-> r2.g, exc |-> r2.exc, v1 |-> r1.v,
                                 v2 |-> -1, branch |-> "raise"]
       ELSE [g |-> AddEdge(r2.g, r1.v, r2.v, condition), exc |-> "",
             v1 |-> r1.v, v2 |-> r2.v, branch |-> "create"]

\* add_interaction that keeps the condition of an existing edge
AddInteractionKeepFirst(g, drug1, drug2, condition) ==
    LET r1 == GetOrCreateVertex(g, drug1)
        r2 == GetOrCreateVertex(r1.g, drug2)
        edge_id == GetEid(r2.g, r1.v, r2.v)
    IN IF r1.exc # "" THEN [g |-> r1.g, exc |-> r1.exc, v1 |-> -1, v2 |-> -1,
                            branch |-> "raise"]
       ELSE IF r2.exc # "" THEN [g |-> r2.g, exc |-> r2.exc, v1 |-> r1.v,
                                 v2 |-> -1, branch |-> "raise"]
       ELSE IF edge_id = -1
       THEN [g |-> AddEdge(r2.g, r1.v, r2.v, condition), exc |-> "",
             v1 |-> r1.v, v2 |-> r2.v, branch |-> "create"]
       ELSE [g |-> r2.g, exc |-> "", v1 |-> r1.v, v2 |-> r2.v,
             branch |-> "update"]

\* add_interaction: the graph after the call, the exception it raised if any,
\* the two vertex ids and the branch taken (create / update the edge).  The
\* vertex of drug1 stays created when drug2 raises.
AddInteraction(g, drug1, drug2, condition) ==
    LET r1 == GetOrCreateVertex(g, drug1)
        r2 == GetOrCreateVertex(r1.g, drug2)
        edge_id == GetEid(r2.g, r1.v, r2.v)
    IN IF r1.exc # "" THEN [g |-> r1.g, exc |-> r1.exc, v1 |-> -1, v2 |-> -1,
                            branch |-> "raise"]
       ELSE IF r2.exc # "" THEN [g |-> r2.g, exc |-> r2.exc, v1 |-> r1.v,
                                 v2 |-> -1, branch |-> "raise"]
       ELSE IF edge_id = -1
       THEN [g |-> AddEdge(r2.g, r1.v, r2.v, condition), exc |-> "",
             v1 |-> r1.v, v2 |-> r2.v, branch |-> "create"]
       ELSE [g |-> SetCondition(r2.g, edge_id, condition), exc |-> "",
             v1 |-> r1.v, v2 |-> r2.v, branch |-> "update"]

\* search_interaction without the check that both names are known
SearchInteractionNoCheck(g, drug1, drug2) ==
    LET normalized1 == NormalizeName(drug1)
        normalized2 == NormalizeName(drug2)
    IN IF \/ normalized1 \notin DOMAIN g.name_to_vertex
          \/ normalized2 \notin DOMAIN g.name_to_vertex
       THEN [exc |-> "KeyError", val |-> None]
       ELSE LET edge_id == GetEid(g, g.name_to_vertex[normalized1],
                                  g.name_to_vertex[normalized2])
            IN IF edge_id = -1 THEN [exc |-> "", val |-> None]
               ELSE [exc |-> "", val |-> g.es[edge_id + 1].condition]

\* search_interaction: the condition of the edge between the two drugs, None
\* when a name is not in the index or no edge joins them
SearchInteraction(g, drug1, drug2) ==
    LET normalized1 == NormalizeName(drug1)
        normalized2 == NormalizeName(drug2)
    IN IF \/ normalized1 \notin DOMAIN g.name_to_vertex
          \/ normalized2 \notin DOMAIN g.name_to_vertex
       THEN [exc |-> "", val |-> None]
       ELSE LET edge_id == GetEid(g, g.name_to_vertex[normalized1],
                                  g.name_to_vertex[normalized2])
            IN IF edge_id = -1 THEN [exc |-> "", val |-> None]
               ELSE [exc |-> "", val |-> g.es[edge_id + 1].condition]

\* the conditions of the edges the loop of search_all_interactions appends,
\* from edge i on: e.source == v1 or e.target == v2, else e.source == v2 or
\* e.target == v1
RECURSIVE InteractionsFrom(_, _, _, _)
InteractionsFrom(g, v1, v2, i) ==
    IF i > Len(g.es) THEN <<>>
    ELSE IF g.es[i].source = v1 \/ g.es[i].target = v2
    THEN <<g.es[i].condition>> \o InteractionsFrom(g, v1, v2, i + 1)
    ELSE IF g.es[i].source = v2 \/ g.es[i].target = v1
    THEN <<g.es[i].condition>> \o InteractionsFrom(g, v1, v2, i + 1)
    ELSE InteractionsFrom(g, v1, v2, i + 1)

\* search_all_interactions: the empty list when a name is not in the index,
\* else the conditions the loop over graph.es collects
SearchAllInteractions(g, drug1, drug2) ==
    LET normalized1 == NormalizeName(drug1)
        normalized2 == NormalizeName(drug2)
    IN IF \/ normalized1 \notin DOMAIN g.name_to_vertex
          \/ normalized2 \notin DOMAIN g.name_to_vertex
       THEN [exc |-> "", val |-> <<>>]
       ELSE [exc |-> "",
             val |-> InteractionsFrom(g, g.name_to_vertex[normalized1],
                                      g.name_to_vertex[normalized2], 1)]

\* the {"drug", "condition"} entries for a list of neighbours
RECURSIVE InteractionsOf(_, _, _)
InteractionsOf(g, vertex_id, neighbors) ==
    IF neighbors = <<>> THEN [exc |-> "", val |-> <<>>]
    ELSE LET neighbor_id == Head(neighbors)
             edge_id == GetEid(g, vertex_id, neighbor_id)
             rest == InteractionsOf(g, vertex_id, Tail(neighbors))
         IN IF edge_id = -1 THEN [exc |-> "InternalError", val |-> <<>>]
            ELSE IF rest.exc # "" THEN rest
            ELSE [exc |-> "",
                  val |-> <<[drug |-> g.vs[neighbor_id + 1].name,
                             condition |-> g.es[edge_id + 1].condition]>>
                          \o rest.val]

\* get_all_interactions_for_drug without the check that the name is known
GetAllInteractionsForDrugNoCheck(g, drug_name) ==
    LET normalized == NormalizeName(drug_name)
    IN IF normalized \notin DOMAIN g.name_to_vertex
       THEN [exc |-> "KeyError", val |-> <<>>]
       ELSE LET vertex_id == g.name_to_vertex[normalized]
            IN InteractionsOf(g, vertex_id, Neighbors(g, vertex_id))

\* get_all_interactions_for_drug: one entry per neighbour of the drug's
\* vertex, the empty list when the name is not in the index
GetAllInteractionsForDrug(g, drug_name) ==
    LET normalized == NormalizeName(drug_name)
    IN IF normalized \notin DOMAIN g.name_to_vertex
       THEN [exc |-> "", val |-> <<>>]
       ELSE LET vertex_id == g.name_to_vertex[normalized]
            IN InteractionsOf(g, vertex_id, Neighbors(g, vertex_id))

\* get_stats: {"drugs": vcount, "interactions": ecount}
GetStats(g) == [drugs |-> vcount(g), interactions |-> ecount(g)]

\* get_all_interactions_for_drug creating the vertex of a name it does not
\* know, as _get_or_create_vertex would
GetAllInteractionsForDrugCreates(g, drug_name) ==
    GetOrCreateVertex(g, drug_name).g

\* the object as each query leaves it.  No query assigns to an attribute of
\* self or of the igraph objects or calls add_vertices or add_edge; a name
\* is looked up with "in" and with [] behind it on a plain dict, which add
\* no key; get_eid(error=False), neighbors, vcount and ecount only read.
SearchInteractionLeaves(g, drug1, drug2) == g

SearchAllInteractionsLeaves(g, drug1, drug2) == g

GetAllInteractionsForDrugLeaves(g, drug_name) == g

GetStatsLeaves(g) == g

---------------------------------------------------------------------------
(* GraphML export and the constructor that reads it back *)

\* graph.write_graphml(filepath): nodes "n0", "n1", ... in vertex order with
\* their name and name_normalized data, edges in edge order naming their
\* endpoints by node id, with their condition data
WriteGraphml(g) ==
    [written |-> TRUE,
     nodes |-> [i \in 1..Len(g.vs) |->
                  [id |-> <<"n", i - 1>>,
                   name |-> g.vs[i].name,
                   name_normalized |-> g.vs[i].name_normalized]],
     edges |-> [i \in 1..Len(g.es) |->
                  [source |-> <<"n", g.es[i].source>>,
                   target |-> <<"n", g.es[i].target>>,
                   condition |-> g.es[i].condition]]]

\* the vertex id igraph gives to the node with this id: its place in the file
NodeIndex(f, node_id) ==
    (CHOOSE k \in 1..Len(f.nodes) : f.nodes[k].id = node_id) - 1

\* ig.read(filepath): vertices in file order, each with the attributes of its
\* data elements and the attribute "id" holding its node id; edges in file order
ReadGraphml(f) ==
    [vs |-> [i \in 1..Len(f.nodes) |->
               [name |-> f.nodes[i].name,
                name_normalized |-> f.nodes[i].name_normalized,
                id |-> f.nodes[i].id]],
     es |-> [i \in 1..Len(f.edges) |->
               LET s == NodeIndex(f, f.edges[i].source)
                   t == NodeIndex(f, f.edges[i].target)
               IN IF Directed
                  THEN [source |-> s, target |-> t,
                        condition |-> f.edges[i].condition]
                  ELSE [source |-> Min(s, t), target |-> Max(s, t),
                        condition |-> f.edges[i].condition]]]

\* _load_name_to_vertex keyed by the display name
LoadNameToVertexByName(vertices) ==
    [k \in {vertices[i].name : i \in 1..Len(vertices)} |->
        (CHOOSE i \in 1..Len(vertices) :
            /\ vertices[i].name = k
            /\ \A j \in (i + 1)..Len(vertices) : vertices[j].name # k) - 1]

\* _load_name_to_vertex: for v in graph.vs, index[v["name_normalized"]] =
\* v.index; a later vertex with the same key replaces an earlier one
LoadNameToVertex(vertices) ==
    [k \in {vertices[i].name_normalized : i \in 1..Len(vertices)} |->
        (CHOOSE i \in 1..Len(vertices) :
            /\ vertices[i].name_normalized = k
            /\ \A j \in (i + 1)..Len(vertices) :
                   vertices[j].name_normalized # k) - 1]

\* DrugInteractionGraph(filepath) without _load_name_to_vertex
ConstructEmptyIndex(f) ==
    LET graph == ReadGraphml(f)
    IN [vs |-> graph.vs, es |-> graph.es, name_to_vertex |-> <<>>]

\* DrugInteractionGraph(filepath): the graph read from the file and the index
\* rebuilt from it
Construct(f) ==
    LET graph == ReadGraphml(f)
    IN [vs |-> graph.vs, es |-> graph.es,
        name_to_vertex |-> LoadNameToVertex(graph.vs)]

\* export_to_graphml then DrugInteractionGraph(filepath)
RoundTrip(g) == Construct(WriteGraphml(g))

---------------------------------------------------------------------------
(* Bulk load *)

\* a key that the JSON object does not have
MissingKey == <<"<missing>">>
MissingCondition == "<missing>"

\* what csv.DictReader gives for the drug fields of a row: a name, the empty
\* string for an empty field, None for a field the row is too short to have
CsvNames == { <<"a">>, <<"b", " ">>, <<>>, NoneName }

\* what csv.DictReader gives for the condition field of a row
CsvConditions == { "c1", "", None }

CsvRows == [drug1 : CsvNames, drug2 : CsvNames, condition : CsvConditions]

\* the values of a JSON object's keys: a string, null, or no such key
JsonNames == { <<"a">>, <<"b", " ">>, NoneName, MissingKey }

JsonConditions == { "c1", None, MissingCondition }

JsonItems == [drug1 : JsonNames, drug2 : JsonNames, condition : JsonConditions]

\* the sequences of at most n elements of S
RECURSIVE SeqsUpTo(_, _)
SeqsUpTo(S, n) ==
    IF n = 0 THEN {<<>>}
    ELSE LET shorter == SeqsUpTo(S, n - 1)
         IN shorter \cup {Append(q, x) : q \in shorter, x \in S}

\* load_from_csv, the loop over the rows: add_interaction for each row and
\* count += 1; an exception leaves the loop and the function.  (The progress
\* bar prints only, for more than 20 rows.)
RECURSIVE LoadFromCsv(_, _, _)
LoadFromCsv(g, rows, count) ==
    IF rows = <<>> THEN [g |-> g, exc |-> "", val |-> count]
    ELSE LET row == Head(rows)
         IN \* self.add_interaction(drug1, drug2, condition)
            CHOOSE out \in
                {IF r.exc # ""
                 THEN [g |-> r.g, exc |-> r.exc, val |-> None]
                 ELSE LoadFromCsv(r.g, Tail(rows), count + 1) :
                     r \in {AddInteraction(g, row.drug1, row.drug2,
                                           row.condition)}} : TRUE

\* load_from_json, the loop over the items: item["drug1"], item["drug2"] and
\* item["condition"] raise KeyError for a key the item does not have
RECURSIVE LoadFromJson(_, _, _)
LoadFromJson(g, data, count) ==
    IF data = <<>> THEN [g |-> g, exc |-> "", val |-> count]
    ELSE LET item == Head(data)
         IN IF \/ item.drug1 = MissingKey
               \/ item.drug2 = MissingKey
               \/ item.condition = MissingCondition
            THEN [g |-> g, exc |-> "KeyError", val |-> None]
            ELSE CHOOSE out \in
                {IF r.exc # ""
                 THEN [g |-> r.g, exc |-> r.exc, val |-> None]
                 ELSE LoadFromJson(r.g, Tail(data), count + 1) :
                     r \in {AddInteraction(g, item.drug1, item.drug2,
                                           item.condition)}} : TRUE

---------------------------------------------------------------------------
(* The embedding artifact and the objects that hold the index *)

\* a file: state is "ok", "missing" or "corrupt"; content is read only of
\* a file that is "ok"
File(state, content) == [state |-> state, content |-> content]

\* numpy array that was never set (None)
NoEmbeddings == <<-1>>

\* DrugEmbeddingMapper.__init__
DrugEmbeddingMapper ==
    [model_name |-> "all-MiniLM-L6-v2", model |-> None, drug_names |-> <<>>,
     embeddings |-> NoEmbeddings, drug_to_index |-> {}]

\* the sidecar written by save_embeddings
MappingData(self) ==
    [drug_names |-> self.drug_names, drug_to_index |-> self.drug_to_index,
     model_name |-> self.model_name,
     embedding_shape |-> Len(self.embeddings)]

\* no file of the artifact exists
NoArtifact ==
    [pkl  |-> File("missing", DrugEmbeddingMapper),
     json |-> File("missing", MappingData(DrugEmbeddingMapper)),
     npy  |-> File("missing", NoEmbeddings)]

\* the vectors the sentence transformer produces are unit vectors in a
\* plane, named by their angle in degrees
Angles == { 0, 60, 180 }

\* the vectors the model gives the names of a vocabulary: two directions,
\* so that two names are equally or differently similar to a query
VocabAngles == { 0, 60 }

\* sklearn cosine_similarity of two vectors, in hundredths
CosineSimilarity(a, b) ==
    LET d == IF a >= b THEN a - b ELSE b - a
        angle == IF d > 180 THEN 360 - d ELSE d
    IN  CASE angle = 0   -> 100
          [] angle = 60  -> 50
          [] angle = 120 -> -50
          [] angle = 180 -> -100

\* the drug names of unique_drugs.txt as load_drug_names returns them:
\* trimmed and not empty
VocabNames == { <<"A">>, <<"a">>, <<"B">> }

\* the lists of at most n different names
Vocabularies(n) ==
    { s \in UNION { [1..k -> VocabNames] : k \in 0..n } :
        \A i, j \in 1..Len(s) : i < j => s[i] # s[j] }

\* SentenceTransformer(model_name): the model, named by its identifier
SentenceTransformer(model_name) == model_name

\* generate_embeddings: one vector for each name, whatever the model gives
GenerateEmbeddings(self, drug_names) ==
    { [self |-> [self EXCEPT !.model =
                    IF self.model = None
                    THEN SentenceTransformer(self.model_name)
                    ELSE self.model],
       embeddings |-> e] :
        e \in [1..Len(drug_names) -> VocabAngles] }

\* {name: idx for idx, name in enumerate(drug_names)} as a set of pairs
DrugToIndex(drug_names) ==
    { <<drug_names[i], i - 1>> : i \in
        { i \in 1..Len(drug_names) :
            \A j \in (i + 1)..Len(drug_names) :
                drug_names[j] # drug_names[i] } }

\* build_mapping
BuildMapping(self, drug_names, embeddings) ==
    [self EXCEPT !.drug_names = drug_names,
                 !.embeddings = embeddings,
                 !.drug_to_index = DrugToIndex(drug_names)]

\* save_embeddings that leaves the sidecar of an earlier, empty vocabulary
SaveEmbeddingsStaleSidecar(self) ==
    IF self.embeddings = NoEmbeddings
    THEN [exc |-> "ValueError", disk |-> NoArtifact]
    ELSE [exc |-> "",
          disk |-> [npy  |-> File("ok", self.embeddings),
                    json |-> File("ok", [MappingData(self) EXCEPT
                                            !.drug_names = <<>>,
                                            !.drug_to_index = {}]),
                    pkl  |-> File("ok", self)]]

\* save_embeddings: the three files, or ValueError
SaveEmbeddings(self) ==
    IF self.embeddings = NoEmbeddings
    THEN [exc |-> "ValueError", disk |-> NoArtifact]
    ELSE [exc |-> "",
          disk |-> [npy  |-> File("ok", self.embeddings),
                    json |-> File("ok", MappingData(self)),
                    pkl  |-> File("ok", self)]]

\* DrugNameMapper.__init__
DrugNameMapper ==
    [model_name |-> "all-MiniLM-L6-v2", model |-> None, drug_names |-> <<>>,
     embeddings |-> NoEmbeddings, drug_to_index |-> {}, is_loaded |-> FALSE]

\* load_embeddings: an exception leaves what was assigned before it
LoadEmbeddings(self, files) ==
    IF files.pkl.state # "missing"
    THEN IF files.pkl.state = "corrupt"
         THEN [self |-> self, ret |-> FALSE]
         ELSE LET saved_mapper == files.pkl.content
              IN  [self |-> [self EXCEPT
                                !.model = saved_mapper.model,
                                !.drug_names = saved_mapper.drug_names,
                                !.embeddings = saved_mapper.embeddings,
                                !.drug_to_index = saved_mapper.drug_to_index,
                                !.is_loaded = TRUE],
                   ret |-> TRUE]
    ELSE IF files.json.state # "missing" /\ files.npy.state # "missing"
    THEN IF files.json.state = "corrupt"
         THEN [self |-> self, ret |-> FALSE]
         ELSE LET mapping_data == files.json.content
                  named == [self EXCEPT
                               !.drug_names = mapping_data.drug_names,
                               !.drug_to_index = mapping_data.drug_to_index,
                               !.model_name = mapping_data.model_name]
              IN  IF files.npy.state = "corrupt"
                  THEN [self |-> named, ret |-> FALSE]
                  ELSE [self |-> [named EXCEPT
                                    !.embeddings = files.npy.content,
                                    !.model = SentenceTransformer(
                                                named.model_name),
                                    !.is_loaded = TRUE],
                        ret |-> TRUE]
    ELSE [self |-> self, ret |-> FALSE]

---------------------------------------------------------------------------
(* The similarity search and the name resolution *)

\* s[::-1]
Reverse(s) == [i \in 1..Len(s) |-> s[Len(s) + 1 - i]]

\* s[:k], k of either sign
SliceTo(s, k) ==
    SubSeq(s, 1, IF k >= 0 THEN Min(k, Len(s)) ELSE Max(Len(s) + k, 0))

\* cosine_similarity(query_embedding, self.embeddings)[0]
Similarities(self, query_embedding) ==
    [i \in 1..Len(self.embeddings) |->
        CosineSimilarity(query_embedding, self.embeddings[i])]

\* np.argsort(similarities): the indices (from 0) in ascending order of
\* similarity.  Its default sort is not stable: the order of equal
\* similarities depends on the build, and ties gives it, index idx coming
\* out as the ties[idx + 1]-th among its equals
ArgSort(similarities, ties) ==
    LET n == Len(similarities)
        Before(a, b) ==
            \/ similarities[a + 1] < similarities[b + 1]
            \/ /\ similarities[a + 1] = similarities[b + 1]
               /\ ties[a + 1] < ties[b + 1]
    IN  CHOOSE order \in
            { [i \in 1..n |-> CHOOSE idx \in 0..(n - 1) : pos[idx] = i - 1] :
              pos \in { [idx \in 0..(n - 1) |->
                           Cardinality({j \in 0..(n - 1) : Before(j, idx)})] }
            } : TRUE

\* _find_closest_drugs with the threshold test turned around
FindClosestDrugsBelow(self, query_embedding, top_k, threshold, ties) ==
    IF self.model = None \/ self.embeddings = NoEmbeddings
        \/ Len(self.embeddings) = 0
    THEN [exc |-> "logged", val |-> <<>>, idx |-> <<>>]
    ELSE CHOOSE results \in UNION
           { { IF \E i \in 1..Len(passing) :
                      passing[i] + 1 > Len(self.drug_names)
               THEN [exc |-> "logged", val |-> <<>>, idx |-> <<>>]
               ELSE [exc |-> "",
                     val |-> [i \in 1..Len(passing) |->
                                <<self.drug_names[passing[i] + 1],
                                  similarities[passing[i] + 1]>>],
                     idx |-> passing] :
               passing \in
                 { SelectSeq(
                      SliceTo(Reverse(ArgSort(similarities, ties)), top_k),
                      LAMBDA idx : similarities[idx + 1] <= threshold) } } :
             similarities \in { Similarities(self, query_embedding) } } :
           TRUE

\* _find_closest_drugs: query_embedding is what model.encode gives the
\* query, ties the order np.argsort gives equal similarities; every
\* exception is logged and the result is the empty list
FindClosestDrugs(self, query_embedding, top_k, threshold, ties) ==
    IF self.model = None \/ self.embeddings = NoEmbeddings
        \/ Len(self.embeddings) = 0
    THEN [exc |-> "logged", val |-> <<>>, idx |-> <<>>]
    ELSE CHOOSE results \in UNION
           { { IF \E i \in 1..Len(passing) :
                      passing[i] + 1 > Len(self.drug_names)
               THEN [exc |-> "logged", val |-> <<>>, idx |-> <<>>]
               ELSE [exc |-> "",
                     val |-> [i \in 1..Len(passing) |->
                                <<self.drug_names[passing[i] + 1],
                                  similarities[passing[i] + 1]>>],
                     idx |-> passing] :
               passing \in
                 { SelectSeq(
                      SliceTo(Reverse(ArgSort(similarities, ties)), top_k),
                      LAMBDA idx : similarities[idx + 1] >= threshold) } } :
             similarities \in { Similarities(self, query_embedding) } } :
           TRUE

\* the first name of the list that equals cleaned_name in lower case, as an
\* index from 1, or 0
RECURSIVE ExactMatch(_, _, _)
ExactMatch(drug_names, cleaned_name, i) ==
    IF i > Len(drug_names) THEN 0
    ELSE IF Lower(drug_names[i]) = cleaned_name THEN i
    ELSE ExactMatch(drug_names, cleaned_name, i + 1)

\* map_drug_name without the exact-match loop
MapDrugNameNoExact(self, extracted_name, threshold, top_k, query_embedding, ties) ==
    IF ~self.is_loaded
    THEN [val |-> NoneName, path |-> "not_loaded", exc |-> ""]
    ELSE IF extracted_name = <<>> \/ Strip(extracted_name) = <<>>
    THEN [val |-> NoneName, path |-> "empty", exc |-> ""]
    ELSE CHOOSE ret \in
           { IF results # <<>>
             THEN [val |-> results[1][1], path |-> "closest", exc |-> ""]
             ELSE [val |-> NoneName, path |-> "none", exc |-> ""] :
             results \in { FindClosestDrugs(self, query_embedding, top_k,
                                            threshold, ties).val } } : TRUE

\* DrugNameMapper.map_drug_name; path names the return statement taken.  It
\* raises nothing for the arguments callers pass: it has no raise statement
\* and the search runs inside try/except Exception
MapDrugName(self, extracted_name, threshold, top_k, query_embedding, ties) ==
    IF ~self.is_loaded
    THEN [val |-> NoneName, path |-> "not_loaded", exc |-> ""]
    ELSE IF extracted_name = <<>> \/ Strip(extracted_name) = <<>>
    THEN [val |-> NoneName, path |-> "empty", exc |-> ""]
    ELSE LET cleaned_name == Lower(Strip(extracted_name))
             exact == ExactMatch(self.drug_names, cleaned_name, 1)
         IN  IF exact # 0
             THEN [val |-> self.drug_names[exact], path |-> "exact", exc |-> ""]
             ELSE CHOOSE ret \in
                    { IF results # <<>>
                      THEN [val |-> results[1][1], path |-> "closest", exc |-> ""]
                      ELSE [val |-> NoneName, path |-> "none", exc |-> ""] :
                      results \in
                        { FindClosestDrugs(self, query_embedding, top_k,
                                           threshold, ties).val } } : TRUE

\* DrugNameMapper.get_drug_suggestions; it raises nothing either
GetDrugSuggestions(self, extracted_name, top_k, threshold, query_embedding, ties) ==
    IF ~self.is_loaded
    THEN [val |-> <<>>, idx |-> <<>>, path |-> "not_loaded", exc |-> ""]
    ELSE IF extracted_name = <<>> \/ Strip(extracted_name) = <<>>
    THEN [val |-> <<>>, idx |-> <<>>, path |-> "empty", exc |-> ""]
    ELSE CHOOSE ret \in
           { [val |-> r.val, idx |-> r.idx, path |-> "closest", exc |-> ""] :
             r \in { FindClosestDrugs(self, query_embedding, top_k,
                                      threshold, ties) } } : TRUE

\* get_drug_mapper on the objects ms with the global dm and the files as
\* they are: the objects and the global after it, what it returns (0 for
\* None) and what load_embeddings returned, if it was called
GetDrugMapper(ms, dm, files) ==
    IF dm = 0 \/ ~ms[dm].is_loaded
    THEN CHOOSE ret \in
           { [mappers |-> Append(ms, r.self), drug_mapper |-> Len(ms) + 1,
              val |-> IF r.ret THEN Len(ms) + 1 ELSE 0,
              load |-> IF r.ret THEN "True" ELSE "False"] :
             r \in { LoadEmbeddings(DrugNameMapper, files) } } : TRUE
    ELSE [mappers |-> ms, drug_mapper |-> dm, val |-> dm, load |-> ""]

\* the module's map_drug_name(extracted_name, threshold)
ModuleMapDrugName(ms, dm, files, extracted_name, threshold, query_embedding, ties) ==
    CHOOSE ret \in UNION
      { IF mapper.val # 0
        THEN { [mappers |-> mapper.mappers, drug_mapper |-> mapper.drug_mapper,
                val |-> r.val, path |-> r.path] :
               r \in { MapDrugName(mapper.mappers[mapper.val], extracted_name,
                                   threshold, 1, query_embedding, ties) } }
        ELSE { [mappers |-> mapper.mappers, drug_mapper |-> mapper.drug_mapper,
                val |-> NoneName, path |-> "no_mapper"] } :
        mapper \in { GetDrugMapper(ms, dm, files) } } : TRUE

---------------------------------------------------------------------------
(* The medicine cabinet (src/app/core/medicine_cabinet.py) *)

\* the users of the cabinet: the one the routes take by default
Users == { "admin" }

\* the drug names callers pass to the cabinet: one that a vocabulary name
\* may match exactly or but for case, one that none matches
CabinetNames == { <<"a">>, <<"z">> }

\* the encoder before any name was encoded
NoEncoder == <<>>

\* MedicineCabinetManager.__init__
MedicineCabinetManager ==
    [cabinets |-> [user_id \in Users |-> {}],
     interaction_results |-> <<>>]

\* the manager object of the process
Manager ==
    [cabinets |-> cabinets, interaction_results |-> interaction_results]

\* Python's True and False as return values
Bool(b) == IF b THEN "True" ELSE "False"

\* ord(ch) of the characters of the names
Ord(ch) ==
    CASE ch = " " -> 32 [] ch = "A" -> 65 [] ch = "B" -> 66
      [] ch = "a" -> 97 [] ch = "b" -> 98 [] ch = "c" -> 99
      [] ch = "z" -> 122

\* s < t of two str
RECURSIVE StrLess(_, _)
StrLess(s, t) ==
    IF t = <<>> THEN FALSE
    ELSE IF s = <<>> THEN TRUE
    ELSE IF Ord(Head(s)) # Ord(Head(t)) THEN Ord(Head(s)) < Ord(Head(t))
    ELSE StrLess(Tail(s), Tail(t))

\* sorted(list(S)) of a set of str
RECURSIVE Sorted(_)
Sorted(S) ==
    IF S = {} THEN <<>>
    ELSE LET least == CHOOSE x \in S : \A y \in S \ {x} : StrLess(x, y)
         IN  <<least>> \o Sorted(S \ {least})

\* MedicineCabinetManager.map_drug_name: the module's map_drug_name at
\* threshold 0.5, the name itself when that returns None.  The module's
\* function raises nothing, so the except branch is not taken
CabinetMapDrugName(ms, dm, files, enc, ties, drug_name) ==
    CHOOSE ret \in
      { [mappers |-> mapped.mappers, drug_mapper |-> mapped.drug_mapper,
         val |-> IF mapped.val # NoneName THEN mapped.val ELSE drug_name] :
        mapped \in { ModuleMapDrugName(ms, dm, files, drug_name, 50,
                                       enc[drug_name], ties) } } :
      TRUE

\* add_drug: the name as given is looked up, the mapped name is stored
AddDrug(self, ms, dm, files, enc, ties, user_id, drug_name) ==
    CHOOSE ret \in
      { IF drug_name \in self.cabinets[user_id]
        THEN [self |-> self,
              mappers |-> n.mappers, drug_mapper |-> n.drug_mapper,
              val |-> "False", exc |-> ""]
        ELSE [self |-> [self EXCEPT !.cabinets[user_id] = @ \cup {n.val}],
              mappers |-> n.mappers, drug_mapper |-> n.drug_mapper,
              val |-> "True", exc |-> ""] :
        n \in { CabinetMapDrugName(ms, dm, files, enc, ties, drug_name) } } : TRUE

\* del d[key] of a dict d
Del(d, key) == [k \in DOMAIN d \ {key} |-> d[k]]

\* remove_drug: the mapped name is looked up, the name as given is removed
\* (set.remove raises KeyError for a name that is not in the set), and the
\* results saved under the mapped name are deleted.  val is None when it
\* raises
RemoveDrug(self, ms, dm, files, enc, ties, user_id, drug_name) ==
    CHOOSE ret \in
      { IF n.val \notin self.cabinets[user_id]
        THEN [self |-> self,
              mappers |-> n.mappers, drug_mapper |-> n.drug_mapper,
              val |-> "False", exc |-> ""]
        ELSE IF drug_name \notin self.cabinets[user_id]
        THEN [self |-> self,
              mappers |-> n.mappers, drug_mapper |-> n.drug_mapper,
              val |-> None, exc |-> "KeyError"]
        ELSE [self |->
                [cabinets |-> [self.cabinets EXCEPT
                                  ![user_id] = @ \ {drug_name}],
                 interaction_results |->
                    IF /\ user_id \in DOMAIN self.interaction_results
                       /\ n.val \in DOMAIN self.interaction_results[user_id]
                    THEN [self.interaction_results EXCEPT
                             ![user_id] = Del(@, n.val)]
                    ELSE self.interaction_results],
              mappers |-> n.mappers, drug_mapper |-> n.drug_mapper,
              val |-> "True", exc |-> ""] :
        n \in { CabinetMapDrugName(ms, dm, files, enc, ties, drug_name) } } : TRUE

\* get_drugs
GetDrugs(self, user_id) == Sorted(self.cabinets[user_id])

\* has_drug: the name is mapped, the name as given is looked up
HasDrug(self, ms, dm, files, enc, ties, user_id, drug_name) ==
    CHOOSE ret \in
      { [self |-> self, mappers |-> n.mappers, drug_mapper |-> n.drug_mapper,
         val |-> Bool(drug_name \in self.cabinets[user_id]), exc |-> ""] :
        n \in { CabinetMapDrugName(ms, dm, files, enc, ties, drug_name) } } : TRUE

\* d[key] of a defaultdict d: a missing key is added with the default
GetDefault(d, key, default) ==
    IF key \in DOMAIN d THEN d
    ELSE [k \in DOMAIN d \cup {key} |-> IF k = key THEN default ELSE d[k]]

\* self.interaction_results[user_id][drug].append(result)
AppendResult(results, user_id, drug, result) ==
    LET users == GetDefault(results, user_id, <<>>)
        drugs == GetDefault(users[user_id], drug, <<>>)
    IN  [users EXCEPT ![user_id] =
            [drugs EXCEPT ![drug] = Append(@, result)]]

\* save_interaction_result: the result is stored under both mapped names.
\* The time of the check is left out of the result
SaveInteractionResult(self, ms, dm, files, enc, ties, user_id, drug1, drug2, interaction_info) ==
    CHOOSE ret \in UNION
      { { [self |->
             [self EXCEPT !.interaction_results =
                 LET result == [drug1 |-> n1.val, drug2 |-> n2.val,
                                interaction |-> interaction_info,
                                has_interaction |-> interaction_info # None]
                 IN  AppendResult(
                         AppendResult(@, user_id, n1.val, result),
                         user_id, n2.val, result)],
           mappers |-> n2.mappers, drug_mapper |-> n2.drug_mapper,
           val |-> None, exc |-> ""] :
          n2 \in { CabinetMapDrugName(n1.mappers, n1.drug_mapper, files,
                                      enc, ties, drug2) } } :
        n1 \in { CabinetMapDrugName(ms, dm, files, enc, ties, drug1) } } : TRUE

\* get_interactions_for_drug; reading interaction_results[user_id] adds the
\* user's key
GetInteractionsForDrug(self, ms, dm, files, enc, ties, user_id, drug_name) ==
    CHOOSE ret \in
      { [self |-> [self EXCEPT !.interaction_results =
                      GetDefault(@, user_id, <<>>)],
         mappers |-> n.mappers, drug_mapper |-> n.drug_mapper,
         val |-> IF /\ user_id \in DOMAIN self.interaction_results
                    /\ n.val \in DOMAIN self.interaction_results[user_id]
                 THEN self.interaction_results[user_id][n.val]
                 ELSE <<>>,
         exc |-> ""] :
        n \in { CabinetMapDrugName(ms, dm, files, enc, ties, drug_name) } } : TRUE

\* clear_cabinet
ClearCabinet(self, user_id) ==
    [cabinets |-> [self.cabinets EXCEPT ![user_id] = {}],
     interaction_results |-> Del(self.interaction_results, user_id)]

---------------------------------------------------------------------------
(* The agents and their manager (src/app/agents/drug_agent.py,             *)
(* src/app/core/agent.py)                                                  *)

\* the set of the elements of the list s
ListSet(s) == { s[i] : i \in 1..Len(s) }

\* DrugInteractionAgent.__init__ with enable_drug_mapping as given and
\* thread_id: the mapper is asked for, then the API key is validated.  The
\* object refers to the global mapper, which is object 1 once it is kept
DrugInteractionAgent(ms, dm, files, api_key, thread_id, enable_drug_mapping) ==
    CHOOSE ret \in
      { [mappers |-> mapper.mappers, drug_mapper |-> mapper.drug_mapper,
         exc |-> IF api_key THEN "" ELSE "ValueError",
         self |-> [thread_id |-> thread_id,
                   enable_drug_mapping |->
                       enable_drug_mapping /\ mapper.val # 0,
                   drug_mapping_threshold |-> 70,
                   drug_mapper |-> IF enable_drug_mapping /\ mapper.val # 0
                                   THEN 1 ELSE 0]] :
        mapper \in { IF enable_drug_mapping
                     THEN GetDrugMapper(ms, dm, files)
                     ELSE [mappers |-> ms, drug_mapper |-> dm, val |-> 0,
                           load |-> ""] } } : TRUE

\* DrugNameMapper.map_multiple_drugs: a dict as a function on its keys
MapMultipleDrugs(self, extracted_names, threshold, enc, ties) ==
    [name \in ListSet(extracted_names) |->
        MapDrugName(self, name, threshold, 1, enc[name], ties).val]

\* DrugInteractionAgent.map_drug_name
AgentMapDrugName(self, ms, drug_name, enc, ties) ==
    IF ~self.enable_drug_mapping \/ self.drug_mapper = 0
    THEN [val |-> drug_name, exc |-> ""]
    ELSE CHOOSE ret \in
           { IF mapped_name # NoneName /\ mapped_name # drug_name
             THEN [val |-> mapped_name, exc |-> ""]
             ELSE [val |-> drug_name, exc |-> ""] :
             mapped_name \in
               { MapDrugName(ms[self.drug_mapper], drug_name,
                     self.drug_mapping_threshold, 1, enc[drug_name],
                     ties).val } } : TRUE

\* DrugInteractionAgent.map_multiple_drugs: mappings.get(name, name) is the
\* value of the key name, None included, and name only if the key is missing
AgentMapMultipleDrugs(self, ms, drug_names, enc, ties) ==
    IF ~self.enable_drug_mapping \/ self.drug_mapper = 0
    THEN [val |-> [name \in ListSet(drug_names) |-> name], exc |-> ""]
    ELSE CHOOSE ret \in
           { [val |-> [name \in ListSet(drug_names) |->
                          IF name \in DOMAIN mappings THEN mappings[name]
                          ELSE name],
              exc |-> ""] :
             mappings \in
               { MapMultipleDrugs(ms[self.drug_mapper], drug_names,
                     self.drug_mapping_threshold, enc, ties) } } : TRUE

\* DrugInteractionAgent.clear_memory: a new thread id
ClearMemory(self, uuid) == [self EXCEPT !.thread_id = uuid]

\* AgentManager.__init__
AgentManager == [agent |-> 0, sessions |-> <<>>, query_answers |-> <<>>]

\* the manager object of the process with the agents that exist
TheAgentManager ==
    [agents |-> agents, agent |-> agent, sessions |-> sessions,
     query_answers |-> query_answers]

\* d[key] = value of a dict d
SetItem(d, key, value) ==
    [k \in DOMAIN d \cup {key} |-> IF k = key THEN value ELSE d[k]]

\* the identity of a new object: one that no object has
NewId(objects) ==
    CHOOSE id \in 1..(Cardinality(DOMAIN objects) + 1) :
        id \notin DOMAIN objects

\* initialize_agent: the graph file must exist and the API key be set, then
\* create_agent builds the main agent
InitializeAgent(self, ms, dm, files, exists, api_key) ==
    IF ~exists
    THEN [self |-> self, mappers |-> ms, drug_mapper |-> dm,
          exc |-> "FileNotFoundError"]
    ELSE IF ~api_key
    THEN [self |-> self, mappers |-> ms, drug_mapper |-> dm,
          exc |-> "ValueError"]
    ELSE CHOOSE ret \in
           { [self |-> [self EXCEPT
                          !.agents = SetItem(@, NewId(self.agents), new.self),
                          !.agent = NewId(self.agents)],
              mappers |-> new.mappers, drug_mapper |-> new.drug_mapper,
              exc |-> ""] :
             new \in { DrugInteractionAgent(ms, dm, files, api_key,
                                            "default", TRUE) } } : TRUE

\* get_or_create_session that builds a new agent at every call
GetOrCreateSessionAlwaysNew(self, ms, dm, files, session_id, uuid) ==
    IF self.agent = 0
    THEN [self |-> self, mappers |-> ms, drug_mapper |-> dm,
          val |-> <<>>, exc |-> "RuntimeError"]
    ELSE LET id == IF session_id = None THEN uuid ELSE session_id
         IN  CHOOSE ret \in
               { [self |-> [self EXCEPT
                      !.agents = SetItem(@, NewId(self.agents), new.self),
                      !.sessions = SetItem(@, id, NewId(self.agents))],
                  mappers |-> new.mappers, drug_mapper |-> new.drug_mapper,
                  val |-> <<id, NewId(self.agents)>>, exc |-> ""] :
                 new \in { DrugInteractionAgent(ms, dm, files, TRUE, id,
                                                TRUE) } } : TRUE

\* get_or_create_session(session_id), uuid being what uuid4 gives when
\* session_id is None.  The API key is set when the main agent exists.  val
\* is the pair returned: the session id and the agent's identity
GetOrCreateSession(self, ms, dm, files, session_id, uuid) ==
    IF self.agent = 0
    THEN [self |-> self, mappers |-> ms, drug_mapper |-> dm,
          val |-> <<>>, exc |-> "RuntimeError"]
    ELSE LET id == IF session_id = None THEN uuid ELSE session_id
         IN  IF id \notin DOMAIN self.sessions
             THEN CHOOSE ret \in
                    { [self |-> [self EXCEPT
                           !.agents = SetItem(@, NewId(self.agents),
                                              new.self),
                           !.sessions = SetItem(@, id, NewId(self.agents))],
                       mappers |-> new.mappers,
                       drug_mapper |-> new.drug_mapper,
                       val |-> <<id, NewId(self.agents)>>, exc |-> ""] :
                      new \in { DrugInteractionAgent(ms, dm, files, TRUE,
                                                     id, TRUE) } } : TRUE
             ELSE [self |-> self, mappers |-> ms, drug_mapper |-> dm,
                   val |-> <<id, self.sessions[id]>>, exc |-> ""]

\* clear_session: the session's agent forgets its thread and is dropped,
\* no other object referring to it, and the saved answer is deleted
ClearSession(self, session_id, uuid) ==
    LET in_sessions == session_id \in DOMAIN self.sessions
        cleared == IF in_sessions
                   THEN [self EXCEPT
                           !.agents = Del(
                               [@ EXCEPT ![self.sessions[session_id]] =
                                   ClearMemory(@, uuid)],
                               self.sessions[session_id]),
                           !.sessions = Del(@, session_id)]
                   ELSE self
        in_answers == session_id \in DOMAIN cleared.query_answers
    IN  [self |-> IF in_answers
                  THEN [cleared EXCEPT !.query_answers = Del(@, session_id)]
                  ELSE cleared,
         val |-> Bool(in_sessions \/ in_answers), exc |-> ""]

\* save_query_answer
SaveQueryAnswer(self, session_id, answer) ==
    [self EXCEPT !.query_answers = SetItem(@, session_id, answer)]

\* get_active_sessions_count
GetActiveSessionsCount(self) == Cardinality(DOMAIN self.sessions)

---------------------------------------------------------------------------
(* The agent workflow (src/app/agents/graph.py) *)

\* langgraph's END
END == "__end__"

\* workflow.set_entry_point
EntryPoint == "agent"

\* tools_condition: "tools" when the last message asks for a tool
ToolsCondition(messages) ==
    IF messages[Len(messages)] = "ai_tool_calls" THEN "tools" ELSE END

\* the path map of add_conditional_edges("agent", tools_condition, ...)
ConditionalEdges == [tools |-> "tools", __end__ |-> "translator"]

\* edges that leave out the parser
EdgesSkipParser == [tools |-> "agent", translator |-> END, parser |-> END]

\* the three add_edge calls
Edges == [tools |-> "agent", translator |-> "parser", parser |-> END]

\* the node that follows node in the workflow state st
Follows(node, st) ==
    IF node = "agent" THEN ConditionalEdges[ToolsCondition(st.messages)]
    ELSE Edges[node]

\* the initial state of invoke; messages are named by their kind
InitialState ==
    [messages |-> <<"human">>, vietnamese_output |-> "",
     parsed_result |-> None]

\* no run was started
NoRun ==
    [status |-> "idle", next |-> "", steps |-> <<>>, st |-> InitialState]

\* _agent_node: the response of the model is appended; an error of the
\* model call is not caught
AgentNode(st, response) ==
    IF response = "raise" THEN [st |-> st, exc |-> "Exception"]
    ELSE [st |-> [st EXCEPT !.messages = Append(@, response)], exc |-> ""]

\* ToolNode(self.tools): a tool message is appended, an error of a tool
\* being told in it
ToolNode(st) ==
    [st |-> [st EXCEPT !.messages = Append(@, "tool")], exc |-> ""]

\* whether a message of the list is an AIMessage
HasAIMessage(messages) ==
    \E i \in 1..Len(messages) : messages[i] \in {"ai", "ai_tool_calls"}

\* _translator_node: the translation of the last AI message, a text that
\* tells the error when the model call fails
TranslatorNode(st, translation) ==
    [st |-> [st EXCEPT !.vietnamese_output =
                IF ~HasAIMessage(st.messages) THEN "cannot_translate"
                ELSE IF translation = "raise" THEN "translation_error"
                ELSE translation],
     exc |-> ""]

\* _parser_node: None for an empty translation and when the model call
\* fails
ParserNode(st, parsed) ==
    [st |-> [st EXCEPT !.parsed_result =
                IF st.vietnamese_output = "" \/ parsed = "raise" THEN None
                ELSE parsed],
     exc |-> ""]

---------------------------------------------------------------------------
(* The calls as steps *)

\* the record of a call in last
Call(op, branch, swapped, exc, val, rows) ==
    [op |-> op, branch |-> branch, swapped |-> swapped, exc |-> exc,
     val |-> val, rows |-> rows]

NoCall == Call("init", "", FALSE, "", None, <<>>)

\* the record of a call to the drug mapper in mlast: the return statement
\* it took, what load_embeddings returned if it was called, and the mapper
\* get_drug_mapper returned (0 for None).  What a query returns is the
\* value of its operator on the mapper.
MapperCall(op, path, load, mapper) ==
    [op |-> op, path |-> path, load |-> load, mapper |-> mapper]

NoMapperCall == MapperCall("init", "", "", 0)

\* the threads of the process; none is inside a call
Threads == 1..2

NoThreads == [t \in Threads |-> [pc |-> "idle"]]

\* the record of a call to the cabinet in clast: its arguments, what it
\* raised and, of a call that returns a bool, what it returned
CabinetCall(op, user_id, drug_name, val, exc) ==
    [op |-> op, user_id |-> user_id, drug_name |-> drug_name, val |-> val,
     exc |-> exc]

NoCabinetCall == CabinetCall("init", "", <<>>, None, "")

\* the record of a call to the agent manager or to an agent in alast: its
\* arguments, what it raised and, for get_or_create_session and
\* clear_session, what it returned
AgentCall(op, session_id, drug_names, val, exc) ==
    [op |-> op, session_id |-> session_id, drug_names |-> drug_names,
     val |-> val, exc |-> exc]

NoAgentCall == AgentCall("init", "", <<>>, <<>>, "")

\* DrugInteractionGraph(): the empty graph, no file written
Init ==
    /\ vs = EmptyGraph.vs
    /\ es = EmptyGraph.es
    /\ name_to_vertex = EmptyGraph.name_to_vertex
    /\ file = NoFile
    /\ last = NoCall
    /\ disk = NoArtifact
    /\ mappers = <<>>
    /\ drug_mapper = 0
    /\ mlast = NoMapperCall
    /\ threads = NoThreads
    /\ encoder = NoEncoder
    /\ cabinets = MedicineCabinetManager.cabinets
    /\ interaction_results = MedicineCabinetManager.interaction_results
    /\ clast = NoCabinetCall
    /\ agents = <<>>
    /\ agent = AgentManager.agent
    /\ sessions = AgentManager.sessions
    /\ query_answers = AgentManager.query_answers
    /\ alast = NoAgentCall
    /\ live = <<>>
    /\ run = NoRun

SetSelf(g) ==
    /\ vs' = g.vs
    /\ es' = g.es
    /\ name_to_vertex' = g.name_to_vertex

\* a caller runs add_interaction(drug1, drug2, condition); a written file is
\* read back before the graph changes again
AddInteractionCall ==
    /\ ~file.written
    /\ \E drug1 \in Names, drug2 \in Names, condition \in Conditions :
        \E r \in {AddInteraction(Self, drug1, drug2, condition)} :
           /\ ecount(r.g) <= MaxEdges
           /\ SetSelf(r.g)
           /\ last' = Call("add_interaction", r.branch, r.v1 > r.v2, r.exc,
                            None, <<>>)
           /\ UNCHANGED <<file, mapperVars, threads, appVars>>

\* a caller runs search_interaction(drug1, drug2)
SearchInteractionCall ==
    \E drug1 \in Names, drug2 \in Names :
        \E r \in {SearchInteraction(Self, drug1, drug2)} :
           /\ SetSelf(SearchInteractionLeaves(Self, drug1, drug2))
           /\ last' = Call("search_interaction", "", FALSE, r.exc, None, <<>>)
           /\ UNCHANGED <<file, mapperVars, threads, appVars>>

\* a caller runs search_all_interactions(drug1, drug2)
SearchAllInteractionsCall ==
    \E drug1 \in Names, drug2 \in Names :
        \E r \in {SearchAllInteractions(Self, drug1, drug2)} :
           /\ SetSelf(SearchAllInteractionsLeaves(Self, drug1, drug2))
           /\ last' = Call("search_all_interactions", "", FALSE, r.exc, None,
                            <<>>)
           /\ UNCHANGED <<file, mapperVars, threads, appVars>>

\* a caller runs get_all_interactions_for_drug(drug_name)
GetAllInteractionsForDrugCall ==
    \E drug_name \in Names :
        \E r \in {GetAllInteractionsForDrug(Self, drug_name)} :
           /\ SetSelf(GetAllInteractionsForDrugLeaves(Self, drug_name))
           /\ last' = Call("get_all_interactions_for_drug", "", FALSE, r.exc,
                            None, <<>>)
           /\ UNCHANGED <<file, mapperVars, threads, appVars>>

\* a caller runs get_stats()
GetStatsCall ==
    /\ SetSelf(GetStatsLeaves(Self))
    /\ last' = Call("get_stats", "", FALSE, "", None, <<>>)
    /\ UNCHANGED <<file, mapperVars, threads, appVars>>

\* a caller runs export_to_graphml(filepath)
ExportToGraphmlCall ==
    /\ ~file.written
    /\ file' = WriteGraphml(Self)
    /\ last' = Call("export_to_graphml", "", FALSE, "", None, <<>>)
    /\ UNCHANGED <<vs, es, name_to_vertex, mapperVars, threads, appVars>>

\* a caller runs DrugInteractionGraph(filepath) on the written file and goes
\* on with the new graph; the file is not read again
ConstructCall ==
    /\ file.written
    /\ SetSelf(Construct(file))
    /\ file' = NoFile
    /\ last' = Call("construct", "", FALSE, "", None, <<>>)
    /\ UNCHANGED <<mapperVars, threads, appVars>>

\* a caller runs load_from_csv(filepath) on the graph it has just
\* constructed, as every caller in the repository does
LoadFromCsvCall ==
    /\ last.op = "init"
    /\ \E rows \in SeqsUpTo(CsvRows, MaxRows) :
        \E r \in {LoadFromCsv(Self, rows, 0)} :
           /\ ecount(r.g) <= MaxEdges
           /\ SetSelf(r.g)
           /\ last' = Call("load_from_csv", "", FALSE, r.exc, r.val, rows)
           /\ UNCHANGED <<file, mapperVars, threads, appVars>>

\* a caller runs load_from_json(filepath) on the graph it has just constructed
LoadFromJsonCall ==
    /\ last.op = "init"
    /\ \E data \in SeqsUpTo(JsonItems, MaxRows) :
        \E r \in {LoadFromJson(Self, data, 0)} :
           /\ ecount(r.g) <= MaxEdges
           /\ SetSelf(r.g)
           /\ last' = Call("load_from_json", "", FALSE, r.exc, r.val, data)
           /\ UNCHANGED <<file, mapperVars, threads, appVars>>

\* the graph built by add_interaction calls and queried
Next ==
    \/ AddInteractionCall
    \/ SearchInteractionCall
    \/ GetAllInteractionsForDrugCall
    \/ GetStatsCall

Spec == Init /\ [][Next]_vars

\* the graph built by add_interaction calls and asked each of its queries
NextQueries ==
    \/ AddInteractionCall
    \/ SearchInteractionCall
    \/ SearchAllInteractionsCall
    \/ GetAllInteractionsForDrugCall
    \/ GetStatsCall

SpecQueries == Init /\ [][NextQueries]_vars

\* the graph built by add_interaction calls, exported and constructed again
NextRoundTrip ==
    \/ AddInteractionCall
    \/ ExportToGraphmlCall
    \/ ConstructCall

SpecRoundTrip == Init /\ [][NextRoundTrip]_vars

\* the graph populated by a bulk load, then extended and queried
NextLoad ==
    \/ LoadFromCsvCall
    \/ LoadFromJsonCall
    \/ AddInteractionCall
    \/ SearchInteractionCall

SpecLoad == Init /\ [][NextLoad]_vars

---------------------------------------------------------------------------
(* The drug mapper: calls as steps *)

\* the queries callers pass: one that a vocabulary name matches but for
\* case and whitespace, one that none matches, the empty one, a blank one
MapperQueries == { <<" ", "A">>, <<"z">>, <<>>, <<" ">> }

\* thresholds in hundredths, two of them outside [0, 1]
Thresholds == { -50, 50, 100, 150 }

TopKs == { -1, 0, 1, 2 }

\* the orders a build may give equal similarities
TieOrders ==
    { p \in [1..MaxVocab -> 0..(MaxVocab - 1)] :
        \A i, j \in 1..MaxVocab : i < j => p[i] # p[j] }

\* the global object alone is kept: no other object is referred to
SetMapper(r) ==
    /\ mappers' = <<r.mappers[r.drug_mapper]>>
    /\ drug_mapper' = 1

\* drug_embedding_generator.main(): the vocabulary is embedded, the mapping
\* built and the three files written
GeneratorMainCall ==
    /\ disk = NoArtifact
    /\ \E drug_names \in Vocabularies(MaxVocab) :
        \E g \in GenerateEmbeddings(DrugEmbeddingMapper, drug_names) :
           /\ disk' = SaveEmbeddings(
                         BuildMapping(g.self, drug_names, g.embeddings)).disk
           /\ mlast' = MapperCall("main", "", "", 0)
           /\ UNCHANGED <<mappers, drug_mapper, graphVars, threads, appVars>>

\* a file of the artifact is removed or damaged, before the process first
\* asks for the mapper
ArtifactDamaged ==
    /\ drug_mapper = 0
    /\ \E f \in {"pkl", "json", "npy"}, state \in {"missing", "corrupt"} :
           /\ disk[f].state = "ok"
           /\ disk' = [disk EXCEPT ![f] = File(state, NoArtifact[f].content)]
    /\ mlast' = MapperCall("files_changed", "", "", 0)
    /\ UNCHANGED <<mappers, drug_mapper, graphVars, threads, appVars>>

\* a caller runs get_drug_mapper()
GetDrugMapperCall ==
    /\ \E r \in {GetDrugMapper(mappers, drug_mapper, disk)} :
           /\ SetMapper(r)
           /\ mlast' = MapperCall("get_drug_mapper", "", r.load,
                                  IF r.val = 0 THEN 0 ELSE 1)
    /\ UNCHANGED <<disk, graphVars, threads, appVars>>

\* a caller runs the module's map_drug_name(extracted_name, threshold)
ModuleMapDrugNameCall ==
    /\ \E r \in { ModuleMapDrugName(mappers, drug_mapper, disk,
                      extracted_name, threshold, query_embedding, ties) :
                    extracted_name \in MapperQueries,
                    threshold \in Thresholds,
                    query_embedding \in Angles, ties \in TieOrders } :
           /\ SetMapper(r)
           /\ mlast' = MapperCall("map_drug_name", r.path, "", 0)
    /\ UNCHANGED <<disk, graphVars, threads, appVars>>

\* a caller runs map_drug_name(extracted_name, threshold, top_k) of the
\* DrugNameMapper it holds
MapDrugNameCall ==
    /\ drug_mapper # 0
    /\ \E r \in { MapDrugName(mappers[drug_mapper], extracted_name,
                      threshold, top_k, query_embedding, ties) :
                    extracted_name \in MapperQueries,
                    threshold \in Thresholds, top_k \in TopKs,
                    query_embedding \in Angles, ties \in TieOrders } :
           mlast' = MapperCall("DrugNameMapper.map_drug_name", r.path,
                               "", 0)
    /\ UNCHANGED <<disk, mappers, drug_mapper, graphVars, threads, appVars>>

\* a caller runs get_drug_suggestions(extracted_name, top_k, threshold) of
\* the DrugNameMapper it holds
GetDrugSuggestionsCall ==
    /\ drug_mapper # 0
    /\ \E r \in { GetDrugSuggestions(mappers[drug_mapper], extracted_name,
                      top_k, threshold, query_embedding, ties) :
                    extracted_name \in MapperQueries,
                    threshold \in Thresholds, top_k \in TopKs,
                    query_embedding \in Angles, ties \in TieOrders } :
           mlast' = MapperCall("get_drug_suggestions", r.path, "", 0)
    /\ UNCHANGED <<disk, mappers, drug_mapper, graphVars, threads, appVars>>

\* the index generated, loaded and queried
NextMapper ==
    \/ GeneratorMainCall
    \/ GetDrugMapperCall
    \/ MapDrugNameCall
    \/ GetDrugSuggestionsCall

SpecMapper == Init /\ [][NextMapper]_vars

\* the index generated, its files kept, removed or damaged, and the mapper
\* asked for through the module's functions
NextArtifact ==
    \/ GeneratorMainCall
    \/ ArtifactDamaged
    \/ GetDrugMapperCall
    \/ ModuleMapDrugNameCall

SpecArtifact == Init /\ [][NextArtifact]_vars

---------------------------------------------------------------------------
(* The medicine cabinet: calls as steps *)

\* the vectors the model gives the names of callers: near the vocabulary
\* or opposite to it
CabinetAngles == { 0, 180 }

\* model.encode is a function: the same name gives the same vector at
\* every call of a process
Encoders == [CabinetNames -> CabinetAngles]

\* what the encoder can be, given what it was seen to be
EncoderOf(enc) == IF enc = NoEncoder THEN Encoders ELSE {enc}

\* save_interaction_result is not taken for a user that has this many
\* results saved
MaxSaved == 1

\* the interaction details a check finds: a text, or None for no interaction
InteractionInfos == { "i1", None }

SetManager(r) ==
    /\ cabinets' = r.self.cabinets
    /\ interaction_results' = r.self.interaction_results
    /\ SetMapper(r)

\* the results saved for a user, each counted once for each name it is
\* stored under
Saved(results, user_id) ==
    IF user_id \in DOMAIN results
    THEN UNION { { <<d, i>> : i \in 1..Len(results[user_id][d]) } :
                 d \in DOMAIN results[user_id] }
    ELSE {}

\* drug_embedding_generator.main() on a vocabulary of one name, before the
\* cabinet's process first asks for the mapper
GeneratorMainOneNameCall ==
    /\ disk = NoArtifact
    /\ drug_mapper = 0
    /\ \E drug_names \in Vocabularies(1) :
        \E g \in GenerateEmbeddings(DrugEmbeddingMapper, drug_names) :
           /\ disk' = SaveEmbeddings(
                         BuildMapping(g.self, drug_names, g.embeddings)).disk
           /\ mlast' = MapperCall("main", "", "", 0)
    /\ UNCHANGED <<mappers, drug_mapper, graphVars, threads, appVars>>

\* a caller runs add_drug(user_id, drug_name)
AddDrugCall ==
    /\ \E user_id \in Users, drug_name \in CabinetNames,
          enc \in EncoderOf(encoder) :
        \E r \in { AddDrug(Manager, mappers, drug_mapper, disk, enc,
                           ties, user_id, drug_name) :
                   ties \in TieOrders } :
           /\ SetManager(r)
           /\ encoder' = enc
           /\ clast' = CabinetCall("add_drug", user_id, drug_name, r.val,
                                   r.exc)
    /\ UNCHANGED <<disk, mlast, graphVars, threads, agentVars, run>>

\* a caller runs remove_drug(user_id, drug_name)
RemoveDrugCall ==
    /\ \E user_id \in Users, drug_name \in CabinetNames,
          enc \in EncoderOf(encoder) :
        \E r \in { RemoveDrug(Manager, mappers, drug_mapper, disk, enc,
                              ties, user_id, drug_name) :
                   ties \in TieOrders } :
           /\ SetManager(r)
           /\ encoder' = enc
           /\ clast' = CabinetCall("remove_drug", user_id, drug_name,
                                   r.val, r.exc)
    /\ UNCHANGED <<disk, mlast, graphVars, threads, agentVars, run>>

\* a caller runs has_drug(user_id, drug_name)
HasDrugCall ==
    /\ \E user_id \in Users, drug_name \in CabinetNames,
          enc \in EncoderOf(encoder) :
        \E r \in { HasDrug(Manager, mappers, drug_mapper, disk, enc,
                           ties, user_id, drug_name) :
                   ties \in TieOrders } :
           /\ SetManager(r)
           /\ encoder' = enc
           /\ clast' = CabinetCall("has_drug", user_id, drug_name, r.val,
                                   r.exc)
    /\ UNCHANGED <<disk, mlast, graphVars, threads, agentVars, run>>

\* a caller runs get_drugs(user_id)
GetDrugsCall ==
    /\ \E user_id \in Users :
           clast' = CabinetCall("get_drugs", user_id, <<>>, None, "")
    /\ UNCHANGED <<encoder, cabinets, interaction_results, graphVars,
                   mapperVars, threads, agentVars, run>>

\* the background check of a new drug against the drugs of the cabinet
\* runs save_interaction_result(user_id, drug1, drug2, interaction_info)
SaveInteractionResultCall ==
    /\ \E user_id \in Users, drug1 \in CabinetNames,
          drug2 \in CabinetNames, interaction_info \in InteractionInfos,
          enc \in EncoderOf(encoder) :
        /\ Cardinality(Saved(interaction_results, user_id)) < 2 * MaxSaved
        /\ \E r \in { SaveInteractionResult(Manager, mappers, drug_mapper,
                          disk, enc, ties, user_id, drug1, drug2,
                          interaction_info) : ties \in TieOrders } :
              /\ SetManager(r)
              /\ encoder' = enc
              /\ clast' = CabinetCall("save_interaction_result", user_id,
                                      drug1, r.val, r.exc)
    /\ UNCHANGED <<disk, mlast, graphVars, threads, agentVars, run>>

\* a caller runs clear_cabinet(user_id)
ClearCabinetCall ==
    /\ \E user_id \in Users :
        \E r \in { [self |-> ClearCabinet(Manager, user_id)] } :
           /\ cabinets' = r.self.cabinets
           /\ interaction_results' = r.self.interaction_results
           /\ clast' = CabinetCall("clear_cabinet", user_id, <<>>, None, "")
    /\ UNCHANGED <<encoder, graphVars, mapperVars, threads, agentVars, run>>

\* the index generated or not, and the cabinet used
NextCabinet ==
    \/ GeneratorMainOneNameCall
    \/ AddDrugCall
    \/ RemoveDrugCall
    \/ HasDrugCall
    \/ GetDrugsCall
    \/ SaveInteractionResultCall
    \/ ClearCabinetCall

SpecCabinet == Init /\ [][NextCabinet]_vars

---------------------------------------------------------------------------
(* The agents and their manager: calls as steps *)

\* no more agent objects than this exist at a time
MaxAgents == 3

\* map_multiple_drugs is given at most this many names
MaxNames == 2

\* the session ids callers make up, and the ids uuid4 gives
SessionIds == { "s1" }

Uuids == { "u1", "u2" }

\* the answers saved
Answers == { "answer" }

SetAgentManager(r) ==
    /\ agents' = r.self.agents
    /\ agent' = r.self.agent
    /\ sessions' = r.self.sessions
    /\ query_answers' = r.self.query_answers

\* the application starts: initialize_agent(), whether the graph file
\* exists and the API key is set or not
InitializeAgentCall ==
    /\ agent = 0
    /\ \E exists \in BOOLEAN, api_key \in BOOLEAN :
        \E r \in { InitializeAgent(TheAgentManager, mappers, drug_mapper,
                                   disk, exists, api_key) } :
           /\ SetAgentManager(r)
           /\ IF r.drug_mapper = 0
              THEN UNCHANGED <<mappers, drug_mapper>>
              ELSE SetMapper(r)
           /\ alast' = AgentCall("initialize_agent", "", <<>>, <<>>, r.exc)
    /\ UNCHANGED <<live, disk, mlast, graphVars, threads, encoder,
                   cabinetVars, run>>

\* a caller runs get_or_create_session(session_id), with an id of its own,
\* one it was given before, or None
GetOrCreateSessionCall ==
    /\ \E session_id \in SessionIds \cup Uuids \cup {None},
          uuid \in Uuids \ (DOMAIN sessions \cup DOMAIN query_answers) :
        \E r \in { GetOrCreateSession(TheAgentManager, mappers, drug_mapper,
                                      disk, session_id, uuid) } :
           /\ Cardinality(DOMAIN r.self.agents) <= MaxAgents
           /\ SetAgentManager(r)
           /\ IF r.drug_mapper = 0
              THEN UNCHANGED <<mappers, drug_mapper>>
              ELSE SetMapper(r)
           /\ alast' = AgentCall("get_or_create_session", session_id, <<>>,
                                 r.val, r.exc)
           /\ live' = IF r.exc = "" /\ r.val[1] \notin DOMAIN live
                      THEN SetItem(live, r.val[1], r.val[2])
                      ELSE live
    /\ UNCHANGED <<disk, mlast, graphVars, threads, encoder, cabinetVars, run>>

\* a caller runs clear_session(session_id)
ClearSessionCall ==
    /\ \E session_id \in SessionIds \cup Uuids, uuid \in Uuids :
        \E r \in { ClearSession(TheAgentManager, session_id, uuid) } :
           /\ SetAgentManager(r)
           /\ alast' = AgentCall("clear_session", session_id, <<>>, r.val,
                                 r.exc)
           /\ live' = Del(live, session_id)
    /\ UNCHANGED <<graphVars, mapperVars, threads, encoder, cabinetVars, run>>

\* a caller runs save_query_answer(session_id, answer)
SaveQueryAnswerCall ==
    /\ \E session_id \in SessionIds \cup Uuids, answer \in Answers :
        \E r \in { [self |-> SaveQueryAnswer(TheAgentManager, session_id,
                                             answer)] } :
           /\ SetAgentManager(r)
           /\ alast' = AgentCall("save_query_answer", session_id, <<>>,
                                 <<>>, "")
    /\ UNCHANGED <<live, graphVars, mapperVars, threads, encoder,
                   cabinetVars, run>>

\* a caller runs get_active_sessions_count()
GetActiveSessionsCountCall ==
    /\ alast' = AgentCall("get_active_sessions_count", "", <<>>, <<>>, "")
    /\ UNCHANGED <<agents, agent, sessions, query_answers, live, graphVars,
                   mapperVars, threads, encoder, cabinetVars, run>>

\* a caller runs map_drug_name(drug_name) of the main agent
AgentMapDrugNameCall ==
    /\ agent # 0
    /\ \E drug_name \in CabinetNames, enc \in EncoderOf(encoder) :
        \E r \in { AgentMapDrugName(agents[agent], mappers, drug_name, enc,
                                    ties) : ties \in TieOrders } :
           /\ encoder' = enc
           /\ alast' = AgentCall("map_drug_name", "", <<drug_name>>, <<>>,
                                 r.exc)
    /\ UNCHANGED <<agents, agent, sessions, query_answers, live, graphVars,
                   mapperVars, threads, cabinetVars, run>>

\* a caller runs map_multiple_drugs(drug_names) of the main agent
AgentMapMultipleDrugsCall ==
    /\ agent # 0
    /\ \E drug_names \in SeqsUpTo(CabinetNames, MaxNames),
          enc \in EncoderOf(encoder) :
        \E r \in { AgentMapMultipleDrugs(agents[agent], mappers, drug_names,
                                         enc, ties) : ties \in TieOrders } :
           /\ encoder' = enc
           /\ alast' = AgentCall("map_multiple_drugs", "", drug_names, <<>>,
                                 r.exc)
    /\ UNCHANGED <<agents, agent, sessions, query_answers, live, graphVars,
                   mapperVars, threads, cabinetVars, run>>

\* the sessions of the manager created and cleared
NextSessions ==
    \/ InitializeAgentCall
    \/ GetOrCreateSessionCall
    \/ ClearSessionCall
    \/ SaveQueryAnswerCall
    \/ GetActiveSessionsCountCall

SpecSessions == Init /\ [][NextSessions]_vars

\* the index generated or not, the main agent built and asked for names
NextAgent ==
    \/ GeneratorMainCall
    \/ InitializeAgentCall
    \/ AgentMapDrugNameCall
    \/ AgentMapMultipleDrugsCall

SpecAgent == Init /\ [][NextAgent]_vars

---------------------------------------------------------------------------
(* The agent workflow: nodes as steps *)

\* langgraph's recursion limit, 25 by default: a run that has taken this
\* many steps and is not at END is ended with GraphRecursionError
MaxSteps == 25

\* what the model answers the agent node: a request for a tool, an answer,
\* or an error
Responses == { "ai_tool_calls", "ai", "raise" }

\* what the model answers the translator: a text, nothing, or an error
Translations == { "text", "", "raise" }

\* what the model answers the parser: a result or an error
ParsedResults == { "parsed", "raise" }

\* the run after node has run with the outcome out
AfterNode(node, out) ==
    LET steps == Append(run.steps, node)
        next == Follows(node, out.st)
    IN  IF out.exc # ""
        THEN [status |-> "error", next |-> "", steps |-> steps,
              st |-> out.st]
        ELSE IF next = END
        THEN [status |-> "end", next |-> "", steps |-> steps, st |-> out.st]
        ELSE IF Len(steps) >= MaxSteps
        THEN [status |-> "error", next |-> "", steps |-> steps,
              st |-> out.st]
        ELSE [status |-> "running", next |-> next, steps |-> steps,
              st |-> out.st]

\* a caller runs invoke(input_text): the run starts at the entry point
InvokeCall ==
    /\ run.status # "running"
    /\ run' = [status |-> "running", next |-> EntryPoint, steps |-> <<>>,
               st |-> InitialState]
    /\ UNCHANGED <<graphVars, mapperVars, threads, encoder, cabinetVars,
                   agentVars>>

\* the agent node runs
AgentNodeStep ==
    /\ run.status = "running"
    /\ run.next = "agent"
    /\ \E response \in Responses :
           run' = AfterNode("agent", AgentNode(run.st, response))
    /\ UNCHANGED <<graphVars, mapperVars, threads, encoder, cabinetVars,
                   agentVars>>

\* the tools node runs
ToolsNodeStep ==
    /\ run.status = "running"
    /\ run.next = "tools"
    /\ run' = AfterNode("tools", ToolNode(run.st))
    /\ UNCHANGED <<graphVars, mapperVars, threads, encoder, cabinetVars,
                   agentVars>>

\* the translator node runs
TranslatorNodeStep ==
    /\ run.status = "running"
    /\ run.next = "translator"
    /\ \E translation \in Translations :
           run' = AfterNode("translator",
                            TranslatorNode(run.st, translation))
    /\ UNCHANGED <<graphVars, mapperVars, threads, encoder, cabinetVars,
                   agentVars>>

\* the parser node runs
ParserNodeStep ==
    /\ run.status = "running"
    /\ run.next = "parser"
    /\ \E parsed \in ParsedResults :
           run' = AfterNode("parser", ParserNode(run.st, parsed))
    /\ UNCHANGED <<graphVars, mapperVars, threads, encoder, cabinetVars,
                   agentVars>>

\* runs of the workflow, one after the other
NextWorkflow ==
    \/ InvokeCall
    \/ AgentNodeStep
    \/ ToolsNodeStep
    \/ TranslatorNodeStep
    \/ ParserNodeStep

SpecWorkflow == Init /\ [][NextWorkflow]_vars

---------------------------------------------------------------------------
(* get_drug_mapper run by several threads, statement by statement *)

\* a thread inside get_drug_mapper: the statement it is at, the mapper its
\* load_embeddings call runs on, what it returned (0 for None) and whether
\* that mapper was loaded when it was returned
MapperThread(pc, self, ret, loaded) ==
    [pc |-> pc, self |-> self, ret |-> ret, loaded |-> loaded]

\* if _drug_mapper is None or not _drug_mapper.is_loaded:
GetDrugMapperTest ==
    /\ \E t \in Threads :
           /\ threads[t].pc = "idle"
           /\ threads' = [threads EXCEPT ![t] = MapperThread(
                  IF drug_mapper = 0 \/ ~mappers[drug_mapper].is_loaded
                  THEN "new" ELSE "return", 0, 0, FALSE)]
    /\ UNCHANGED <<graphVars, mapperVars, appVars>>

\* _drug_mapper = DrugNameMapper()
GetDrugMapperNew ==
    /\ \E t \in Threads :
           /\ threads[t].pc = "new"
           /\ threads' = [threads EXCEPT ![t].pc = "load"]
    /\ mappers' = Append(mappers, DrugNameMapper)
    /\ drug_mapper' = Len(mappers) + 1
    /\ UNCHANGED <<graphVars, disk, mlast, appVars>>

\* _drug_mapper.load_embeddings(embeddings_path) is entered: the global is
\* read again and the call runs on the object it names now
GetDrugMapperLoadBegin ==
    /\ \E t \in Threads :
           /\ threads[t].pc = "load"
           /\ threads' = [threads EXCEPT ![t].pc = "loading",
                                         ![t].self = drug_mapper]
    /\ UNCHANGED <<graphVars, mapperVars, appVars>>

\* load_embeddings returns, is_loaded set last; return None when it failed
GetDrugMapperLoadEnd ==
    /\ \E t \in Threads :
           /\ threads[t].pc = "loading"
           /\ \E r \in {LoadEmbeddings(mappers[threads[t].self], disk)} :
                  /\ mappers' = [mappers EXCEPT ![threads[t].self] = r.self]
                  /\ threads' = [threads EXCEPT
                        ![t].pc = IF r.ret THEN "return" ELSE "done"]
    /\ UNCHANGED <<graphVars, disk, drug_mapper, mlast, appVars>>

\* return _drug_mapper
GetDrugMapperReturn ==
    /\ \E t \in Threads :
           /\ threads[t].pc = "return"
           /\ threads' = [threads EXCEPT
                 ![t].pc = "done",
                 ![t].ret = drug_mapper,
                 ![t].loaded = mappers[drug_mapper].is_loaded]
    /\ UNCHANGED <<graphVars, mapperVars, appVars>>

\* the index generated, and each thread asking once for the mapper
NextMapperThreads ==
    \/ GeneratorMainCall
    \/ GetDrugMapperTest
    \/ GetDrugMapperNew
    \/ GetDrugMapperLoadBegin
    \/ GetDrugMapperLoadEnd
    \/ GetDrugMapperReturn

SpecMapperThreads == Init /\ [][NextMapperThreads]_vars

---------------------------------------------------------------------------
(* The shared graph used by several threads, statement by statement *)

\* the add_interaction calls the threads make: the same pair of drugs under
\* different spellings and in either order
ThreadCalls ==
    { <<d[1], d[2], condition>> :
        d \in { << <<"a">>, <<"b", " ">> >>, << <<" ", "A">>, <<"b", " ">> >>,
                << <<"b", " ">>, <<"a">> >> },
        condition \in Conditions }

\* a thread inside add_interaction: the statement it is at, its arguments,
\* which of the two _get_or_create_vertex calls it is in (k), and its local
\* variables; or a thread that has run get_stats and what it returned (obs)
GraphThread(pc, call, k, vertex_id, v, edge_id, obs) ==
    [pc |-> pc, call |-> call, k |-> k, vertex_id |-> vertex_id, v |-> v,
     edge_id |-> edge_id, obs |-> obs]

\* the name a thread's current _get_or_create_vertex call is given
DrugName(th) == th.call[th.k]

\* where a thread goes when _get_or_create_vertex returns
AfterVertex(th, vertex_id) ==
    [th EXCEPT !.v[th.k] = vertex_id,
               !.k = IF th.k = 1 THEN 2 ELSE th.k,
               !.pc = IF th.k = 1 THEN "lookup" ELSE "get_eid"]

\* a thread calls add_interaction(drug1, drug2, condition)
AddInteractionEnter ==
    /\ \E t \in Threads, call \in ThreadCalls :
           /\ threads[t].pc = "idle"
           /\ threads' = [threads EXCEPT ![t] =
                 GraphThread("lookup", call, 1, -1, <<-1, -1>>, -1,
                             GetStats(EmptyGraph))]
    /\ UNCHANGED <<graphVars, mapperVars, appVars>>

\* _get_or_create_vertex: if normalized in self._name_to_vertex: return it
LookupVertex ==
    /\ \E t \in Threads :
           /\ threads[t].pc = "lookup"
           /\ \E normalized \in {NormalizeName(DrugName(threads[t]))} :
                 threads' = [threads EXCEPT ![t] =
                    IF normalized \in DOMAIN name_to_vertex
                    THEN AfterVertex(@, name_to_vertex[normalized])
                    ELSE [@ EXCEPT !.pc = "vcount"]]
    /\ UNCHANGED <<graphVars, mapperVars, appVars>>

\* vertex_id = self.graph.vcount()
ReadVcount ==
    /\ \E t \in Threads :
           /\ threads[t].pc = "vcount"
           /\ threads' = [threads EXCEPT ![t].vertex_id = vcount(Self),
                                         ![t].pc = "add_vertices"]
    /\ UNCHANGED <<graphVars, mapperVars, appVars>>

\* self.graph.add_vertices(1): a vertex with no attribute set
AddVertices ==
    /\ \E t \in Threads :
           /\ threads[t].pc = "add_vertices"
           /\ threads' = [threads EXCEPT ![t].pc = "name"]
    /\ vs' = Append(vs, [name |-> NoId, name_normalized |-> NoId,
                         id |-> NoId])
    /\ UNCHANGED <<es, name_to_vertex, file, last, mapperVars, appVars>>

\* self.graph.vs[vertex_id]["name"] = drug_name.strip()
SetName ==
    /\ \E t \in Threads :
           /\ threads[t].pc = "name"
           /\ threads' = [threads EXCEPT ![t].pc = "name_normalized"]
           /\ vs' = [vs EXCEPT ![threads[t].vertex_id + 1].name =
                                  Strip(DrugName(threads[t]))]
    /\ UNCHANGED <<es, name_to_vertex, file, last, mapperVars, appVars>>

\* self.graph.vs[vertex_id]["name_normalized"] = normalized
SetNameNormalized ==
    /\ \E t \in Threads :
           /\ threads[t].pc = "name_normalized"
           /\ threads' = [threads EXCEPT ![t].pc = "index"]
           /\ vs' = [vs EXCEPT ![threads[t].vertex_id + 1].name_normalized =
                                  NormalizeName(DrugName(threads[t]))]
    /\ UNCHANGED <<es, name_to_vertex, file, last, mapperVars, appVars>>

\* self._name_to_vertex[normalized] = vertex_id; return vertex_id
SetNameToVertex ==
    /\ \E t \in Threads :
           /\ threads[t].pc = "index"
           /\ \E normalized \in {NormalizeName(DrugName(threads[t]))} :
                 name_to_vertex' =
                     [key \in DOMAIN name_to_vertex \cup {normalized} |->
                         IF key = normalized THEN threads[t].vertex_id
                         ELSE name_to_vertex[key]]
           /\ threads' = [threads EXCEPT ![t] =
                             AfterVertex(@, threads[t].vertex_id)]
    /\ UNCHANGED <<vs, es, file, last, mapperVars, appVars>>

\* edge_id = self.graph.get_eid(v1, v2, error=False)
ReadEid ==
    /\ \E t \in Threads :
           /\ threads[t].pc = "get_eid"
           /\ threads' = [threads EXCEPT
                 ![t].edge_id = GetEid(Self, threads[t].v[1], threads[t].v[2]),
                 ![t].pc = "edge"]
    /\ UNCHANGED <<graphVars, mapperVars, appVars>>

\* add_edge(v1, v2, condition=condition), or es[edge_id]["condition"] =
\* condition
AddOrUpdateEdge ==
    /\ \E t \in Threads :
           /\ threads[t].pc = "edge"
           /\ threads' = [threads EXCEPT ![t].pc = "done"]
           /\ es' = IF threads[t].edge_id = -1
                    THEN AddEdge(Self, threads[t].v[1], threads[t].v[2],
                                 threads[t].call[3]).es
                    ELSE SetCondition(Self, threads[t].edge_id,
                                      threads[t].call[3]).es
    /\ UNCHANGED <<vs, name_to_vertex, file, last, mapperVars, appVars>>

\* a thread runs get_stats() on the shared graph
GetStatsRead ==
    /\ \E t \in Threads :
           /\ threads[t].pc = "idle"
           /\ threads' = [threads EXCEPT ![t] =
                 GraphThread("read", <<>>, 0, -1, <<-1, -1>>, -1,
                             GetStats(Self))]
    /\ UNCHANGED <<graphVars, mapperVars, appVars>>

\* each thread makes one call on the shared graph
NextGraphThreads ==
    \/ AddInteractionEnter
    \/ LookupVertex
    \/ ReadVcount
    \/ AddVertices
    \/ SetName
    \/ SetNameNormalized
    \/ SetNameToVertex
    \/ ReadEid
    \/ AddOrUpdateEdge
    \/ GetStatsRead

SpecGraphThreads == Init /\ [][NextGraphThreads]_vars

---------------------------------------------------------------------------
(* What the claims speak of, stated on the graph itself *)

\* the trimmed, lower-cased form of a name
Key(name) == Lower(Strip(name))

\* the trimmed, lower-cased form of each name the callers use
DrugOf == [n \in Names |-> Key(n)]

\* two names differ at most in case and in leading or trailing whitespace
SameDrug(a, b) == DrugOf[a] = DrugOf[b]

\* the vertices of g that carry this normalized name
VerticesOf(g, key) ==
    {v \in 0..(vcount(g) - 1) : g.vs[v + 1].name_normalized = key}

IsVertex(g, name) == VerticesOf(g, DrugOf[name]) # {}

\* the edges of g that join the drugs of the two names
EdgesBetween(g, a, b) ==
    {i \in 1..Len(g.es) :
        {g.vs[g.es[i].source + 1].name_normalized,
         g.vs[g.es[i].target + 1].name_normalized} = {DrugOf[a], DrugOf[b]}}

\* one name for each drug the callers name
Drugs == {n \in Names : n = CHOOSE m \in Names : SameDrug(m, n)}

\* the graph is as the constructor or an add_interaction call left it; the
\* queries change no graph, so every graph that is reached is reached so
AfterAddInteraction == last.op \in {"init", "add_interaction"}

\* a search_interaction call has just returned; the call is made on every
\* graph that is reached
AfterSearchInteraction == last.op = "search_interaction"

\* a get_all_interactions_for_drug call has just returned; the call is made
\* on every graph that is reached
AfterGetAllInteractionsForDrug == last.op = "get_all_interactions_for_drug"

\* the last call was an add_interaction that found the edge and updated it
LastAddUpdated == last.op = "add_interaction" /\ last.branch = "update"

---------------------------------------------------------------------------
(* Claims *)

\* C1: after any sequence of add_interaction calls search_interaction is
\* symmetric: search_interaction(a, b) = search_interaction(b, a) for all
\* names a and b.
C1_SearchSymmetric ==
    AfterSearchInteraction =>
        \A a \in Names, b \in Names :
            SearchInteraction(Self, a, b) = SearchInteraction(Self, b, a)

\* C1 witness: a search has run on a graph where two different drugs are
\* joined by one edge, and searching them second-created first finds it.
C1_Witness ==
    /\ AfterSearchInteraction
    /\ Len(vs) = 2
    /\ Len(es) = 1
    /\ es[1].source # es[1].target
    /\ SearchInteraction(Self, vs[2].name, vs[1].name).val = es[1].condition

\* C2: search_interaction does not depend on the case or the surrounding
\* whitespace of its arguments, whichever variant was used at insertion.
C2_SearchCaseWhitespaceInvariant ==
    AfterSearchInteraction =>
        \A a \in Names, a2 \in Names :
            SameDrug(a, a2) =>
                \A b \in Names, b2 \in Names :
                    SameDrug(b, b2) =>
                        SearchInteraction(Self, a2, b2)
                            = SearchInteraction(Self, a, b)

\* C2 witness: a search has run on a graph where a drug was inserted in upper
\* case behind whitespace, and its lower-case name finds the edge.
C2_Witness ==
    /\ AfterSearchInteraction
    /\ \E i \in 1..Len(vs) : vs[i].name = <<"A">>
    /\ SearchInteraction(Self, <<"a">>, <<"b", " ">>).val \in Conditions

\* C3: add_interaction for a pair of drugs that already has an edge, in
\* either argument order, with any variant of the names and any condition,
\* changes neither get_stats()["interactions"] nor get_stats()["drugs"].
\* The calls are made on every graph the add_interaction calls reach.
C3_UpsertKeepsCounts ==
    AfterAddInteraction =>
        \A drug1 \in Names, drug2 \in Names, condition \in Conditions :
            EdgesBetween(Self, drug1, drug2) # {} =>
                GetStats(AddInteraction(Self, drug1, drug2, condition).g)
                    = GetStats(Self)

\* C3 witness: an add_interaction has just updated an existing edge, its
\* arguments in the order opposite to the one that created the vertices.
C3_Witness ==
    /\ LastAddUpdated
    /\ last.swapped
    /\ Len(es) >= 1

\* search_interaction for one name of each drug and of each other drug
SearchTable(g) ==
    [x \in Drugs |-> [y \in Drugs |-> SearchInteraction(g, x, y)]]

\* C4: last write wins: right after add_interaction(a, b, c) both
\* search_interaction(a, b) and search_interaction(b, a) return c, and the
\* condition of every other pair is what it was.  The calls are made on
\* every graph the add_interaction calls reach.
C4_LastWriteWins ==
    AfterAddInteraction =>
        \E before \in {SearchTable(Self)} :
            \A drug1 \in Names, drug2 \in Names, condition \in Conditions :
                \E after \in {AddInteraction(Self, drug1, drug2, condition).g} :
                    /\ SearchInteraction(after, drug1, drug2)
                           = [exc |-> "", val |-> condition]
                    /\ SearchInteraction(after, drug2, drug1)
                           = [exc |-> "", val |-> condition]
                    /\ \A x \in Drugs, y \in Drugs :
                           {DrugOf[x], DrugOf[y]}
                                   # {DrugOf[drug1], DrugOf[drug2]} =>
                               SearchInteraction(after, x, y) = before[x][y]

\* C4 witness: an add_interaction has just overwritten the condition of one
\* pair while another pair holds a different condition.
C4_Witness ==
    /\ LastAddUpdated
    /\ Len(es) = 2
    /\ es[1].condition # es[2].condition

\* C5: search_interaction returns None when either name is unknown to the
\* graph or no edge joins the two drugs, the stored condition otherwise, and
\* never raises.
C5_SearchResult ==
    AfterSearchInteraction =>
        \A a \in Names, b \in Names :
            SearchInteraction(Self, a, b) =
                IF ~IsVertex(Self, a) \/ ~IsVertex(Self, b)
                      \/ EdgesBetween(Self, a, b) = {}
                THEN [exc |-> "", val |-> None]
                ELSE [exc |-> "",
                      val |-> es[CHOOSE i \in EdgesBetween(Self, a, b) : TRUE]
                                  .condition]

\* C5 witness: a search has run on a graph where an unknown drug gives None,
\* a known drug has no edge to itself and gives None, and two known drugs
\* are joined by an edge and give its condition.
C5_Witness ==
    /\ AfterSearchInteraction
    /\ last.exc = ""
    /\ Len(es) = 1
    /\ es[1].source # es[1].target
    /\ \E n \in Names :
           /\ ~IsVertex(Self, n)
           /\ SearchInteraction(Self, n, vs[1].name).val = None
    /\ SearchInteraction(Self, vs[1].name, vs[1].name).val = None
    /\ SearchInteraction(Self, vs[1].name, vs[2].name).val = es[1].condition

\* C6: get_all_interactions_for_drug returns the empty list, and raises
\* nothing, for every name that is not a vertex of the graph.
C6_UnknownDrugEmptyList ==
    AfterGetAllInteractionsForDrug =>
        \A n \in Names :
            ~IsVertex(Self, n) =>
                \E r \in {GetAllInteractionsForDrug(Self, n)} :
                    r.exc = "" /\ r.val = <<>>

\* C6 witness: the listing has run on a graph with edges where some name is
\* no vertex and gets the empty list, while a known drug gets entries.
C6_Witness ==
    /\ AfterGetAllInteractionsForDrug
    /\ last.exc = ""
    /\ Len(es) >= 1
    /\ \E n \in Names :
           /\ ~IsVertex(Self, n)
           /\ GetAllInteractionsForDrug(Self, n).val = <<>>
    /\ GetAllInteractionsForDrug(Self, vs[1].name).val # <<>>

\* C7: no two vertices have the same normalized (trimmed, lower-cased) name.
C7_NormalizedNamesUnique ==
    \A i \in 1..Len(vs), j \in 1..Len(vs) :
        i # j => /\ vs[i].name_normalized # vs[j].name_normalized
                 /\ Key(vs[i].name) # Key(vs[j].name)

\* C7 witness: two vertices carry two edges, so a later add_interaction met
\* a drug that was already a vertex, one of them inserted in upper case.
C7_Witness ==
    /\ last.op = "add_interaction"
    /\ Len(vs) = 2
    /\ Len(es) = 2
    /\ \E i \in 1..Len(vs) : vs[i].name = <<"A">>

\* C8: the graph has at most one edge per unordered pair of vertices, also
\* when the same pair is inserted in both argument orders.
C8_NoParallelEdges ==
    \A i \in 1..Len(es), j \in 1..Len(es) :
        i # j => {es[i].source, es[i].target} # {es[j].source, es[j].target}

\* C8 witness: the graph has two vertices and one edge, and the last
\* add_interaction named them in the order opposite to their creation and
\* took the update branch: the pair was inserted in both orders.
C8_Witness ==
    /\ LastAddUpdated
    /\ Len(vs) = 2
    /\ Len(es) = 1
    /\ last.swapped

\* a row that has both drug names and a condition
WellFormed(row) ==
    /\ row.drug1 \notin {NoneName, MissingKey}
    /\ row.drug2 \notin {NoneName, MissingKey}
    /\ Strip(row.drug1) # <<>>
    /\ Strip(row.drug2) # <<>>
    /\ row.condition \notin {None, MissingCondition, ""}

\* the graph after add_interaction for each well-formed row, in order
RECURSIVE AddWellFormed(_, _)
AddWellFormed(g, rows) ==
    IF rows = <<>> THEN g
    ELSE LET row == Head(rows)
         IN IF WellFormed(row)
            THEN AddWellFormed(
                     AddInteraction(g, row.drug1, row.drug2, row.condition).g,
                     Tail(rows))
            ELSE AddWellFormed(g, Tail(rows))

\* C9: a bulk load tolerates dirty data: a row that is missing a drug name
\* or a condition is skipped and never aborts the load, and every
\* well-formed row before and after it is inserted; so a load into a new
\* graph raises nothing and leaves the graph of the well-formed rows.
C9_LoadSkipsDirtyRows ==
    last.op \in {"load_from_csv", "load_from_json"} =>
        /\ last.exc = ""
        /\ Self = AddWellFormed(EmptyGraph, last.rows)

\* C10: exporting the graph with export_to_graphml and constructing a new
\* DrugInteractionGraph from the file gives the same get_stats(), the same
\* vertex names and normalized names, the same edge conditions and the same
\* search_interaction result for every pair of names.
C10_RoundTrip ==
    \E loaded \in {RoundTrip(Self)} :
        /\ GetStats(loaded) = GetStats(Self)
        /\ \A i \in 1..Len(vs) :
               /\ loaded.vs[i].name = vs[i].name
               /\ loaded.vs[i].name_normalized = vs[i].name_normalized
        /\ \A i \in 1..Len(es) : loaded.es[i].condition = es[i].condition
        /\ \A a \in Names, b \in Names :
               SearchInteraction(loaded, a, b) = SearchInteraction(Self, a, b)

\* C10 witness: a graph has been constructed from an exported file that
\* holds edges and a vertex whose display name is not its normalized name.
C10_Witness ==
    /\ last.op = "construct"
    /\ Len(es) = 2
    /\ \E i \in 1..Len(vs) : vs[i].name # vs[i].name_normalized

---------------------------------------------------------------------------
(* What the claims speak of, stated on the drug mapper *)

\* the DrugNameMapper the callers hold
TheMapper == mappers[drug_mapper]

\* some vocabulary name equals the trimmed query, ignoring case
HasExactMatch(self, query) ==
    \E i \in 1..Len(self.drug_names) : Key(self.drug_names[i]) = Key(query)

\* a map_drug_name call of the mapper has just returned; the call is made
\* on every mapper that is reached
AfterMapDrugName == mlast.op = "DrugNameMapper.map_drug_name"

\* a get_drug_suggestions call has just returned; the call is made on every
\* mapper that is reached
AfterGetDrugSuggestions == mlast.op = "get_drug_suggestions"

\* C11: when the mapper is loaded and the trimmed query equals a vocabulary
\* name ignoring case, map_drug_name returns a vocabulary name that equals
\* the query ignoring case, and the same one for every threshold (1.0
\* among them), every top_k and whatever the similarity scores are.
C11_ExactMatchShortCircuit ==
    AfterMapDrugName /\ TheMapper.is_loaded =>
        \A query \in MapperQueries :
            HasExactMatch(TheMapper, query) =>
                \E name \in {TheMapper.drug_names[i] :
                                i \in 1..Len(TheMapper.drug_names)} :
                    /\ Key(name) = Key(query)
                    /\ \A threshold \in Thresholds, top_k \in TopKs,
                          query_embedding \in Angles, ties \in TieOrders :
                           MapDrugName(TheMapper, query, threshold, top_k,
                                       query_embedding, ties).val = name

\* C11 witness: a call on a loaded mapper returned from the exact-match
\* loop, and the vocabulary holds a second name as well.
C11_Witness ==
    /\ AfterMapDrugName
    /\ mlast.path = "exact"
    /\ TheMapper.is_loaded
    /\ Len(TheMapper.drug_names) = 2


\* the elements of a sequence
Range(s) == {s[i] : i \in 1..Len(s)}

\* C12: for a fixed query, a fixed top_k and a fixed loaded index, the
\* pairs get_drug_suggestions reports at a threshold are among those it
\* reports at any lower threshold.
C12_ThresholdMonotone ==
    AfterGetDrugSuggestions /\ TheMapper.is_loaded =>
        \A query \in MapperQueries, top_k \in TopKs,
           query_embedding \in Angles, ties \in TieOrders :
            \E reported \in
                  { [threshold \in Thresholds |->
                       Range(GetDrugSuggestions(TheMapper, query, top_k,
                                 threshold, query_embedding, ties).val)] } :
                \A t_lo \in Thresholds, t_hi \in Thresholds :
                    t_hi >= t_lo => reported[t_hi] \subseteq reported[t_lo]

\* C12 witness: a search has run on a loaded index where a higher threshold
\* reports one pair and a lower one reports two.
C12_Witness ==
    /\ AfterGetDrugSuggestions
    /\ mlast.path = "closest"
    /\ TheMapper.is_loaded
    /\ \E query \in MapperQueries, top_k \in TopKs,
          query_embedding \in Angles, ties \in TieOrders :
        \E t_lo \in Thresholds, t_hi \in Thresholds :
            /\ t_hi > t_lo
            /\ Len(GetDrugSuggestions(TheMapper, query, top_k, t_hi,
                                      query_embedding, ties).val) = 1
            /\ Len(GetDrugSuggestions(TheMapper, query, top_k, t_lo,
                                      query_embedding, ties).val) = 2


\* C13: the similarity search returns its candidates in descending order of
\* similarity, and candidates of equal similarity in vocabulary order, the
\* lower vocabulary index first.
C13_DescendingStableTies ==
    AfterGetDrugSuggestions /\ TheMapper.is_loaded =>
        \A query \in MapperQueries, top_k \in TopKs,
           threshold \in Thresholds, query_embedding \in Angles,
           ties \in TieOrders :
            \E r \in {GetDrugSuggestions(TheMapper, query, top_k, threshold,
                                         query_embedding, ties)} :
                \A i, j \in 1..Len(r.val) :
                    i < j =>
                        /\ r.val[i][2] >= r.val[j][2]
                        /\ r.val[i][2] = r.val[j][2] => r.idx[i] < r.idx[j]


\* the query is a name (not blank) that no vocabulary name matches exactly
NoExactMatch(self, query) ==
    Strip(query) # <<>> /\ ~HasExactMatch(self, query)

\* the highest similarity of the vocabulary to the query vector
Best(self, query_embedding) ==
    CHOOSE s \in Range(Similarities(self, query_embedding)) :
        \A u \in Range(Similarities(self, query_embedding)) : s >= u

\* C14: for a query with no exact vocabulary match, map_drug_name returns
\* the vocabulary name with the highest similarity if and only if that
\* similarity is >= threshold, and None otherwise; every pair that
\* get_drug_suggestions reports has a score >= threshold, and it reports at
\* most top_k pairs.
C14_BestAboveThreshold ==
    (AfterMapDrugName \/ AfterGetDrugSuggestions) /\ TheMapper.is_loaded =>
        \A query \in {q \in MapperQueries : NoExactMatch(TheMapper, q)},
           threshold \in Thresholds, top_k \in TopKs,
           query_embedding \in Angles, ties \in TieOrders :
            \E name \in {MapDrugName(TheMapper, query, threshold, top_k,
                                     query_embedding, ties).val},
               pairs \in {GetDrugSuggestions(TheMapper, query, top_k,
                              threshold, query_embedding, ties).val} :
                /\ IF /\ TheMapper.drug_names # <<>>
                      /\ Best(TheMapper, query_embedding) >= threshold
                   THEN \E i \in 1..Len(TheMapper.drug_names) :
                           /\ name = TheMapper.drug_names[i]
                           /\ Similarities(TheMapper, query_embedding)[i]
                                  = Best(TheMapper, query_embedding)
                   ELSE name = NoneName
                /\ \A i \in 1..Len(pairs) : pairs[i][2] >= threshold
                /\ Len(pairs) <= top_k


\* a loaded mapper whose one vocabulary name is far from the query vector 0
FarMapper ==
    LoadEmbeddings(DrugNameMapper,
        SaveEmbeddings(BuildMapping(
            [DrugEmbeddingMapper EXCEPT
                !.model = SentenceTransformer(DrugEmbeddingMapper.model_name)],
            << <<"B">> >>, <<180>>)).disk).self

\* what the module's map_drug_name returns for a name that has no match in
\* a loaded index
NoMatchResult ==
    ModuleMapDrugName(<<FarMapper>>, 1, NoArtifact, <<"z">>, 50, 0,
                      [i \in 1..MaxVocab |-> i - 1])

\* C15: the result of resolving a name while the index is not loaded is
\* never the same value as the result of resolving a name that has no match
\* in a loaded index: through the module's map_drug_name, and through
\* map_drug_name of a mapper whose load failed.
C15_UnavailableDistinct ==
    mlast.op = "map_drug_name" =>
        \A query \in {q \in MapperQueries : Strip(q) # <<>>},
           threshold \in Thresholds, query_embedding \in Angles,
           ties \in TieOrders :
            /\ \E r \in {ModuleMapDrugName(mappers, drug_mapper, disk, query,
                             threshold, query_embedding, ties)} :
                   r.path = "no_mapper" => r.val # NoMatchResult.val
            /\ ~TheMapper.is_loaded =>
                   MapDrugName(TheMapper, query, threshold, 1,
                               query_embedding, ties).val # NoMatchResult.val


\* the arguments are a programming error: a threshold outside [0, 1], an
\* empty or blank query, or a negative top_k
ProgrammingError(query, threshold, top_k) ==
    \/ threshold < 0
    \/ threshold > 100
    \/ Strip(query) = <<>>
    \/ top_k < 0

\* C16: map_drug_name or get_drug_suggestions called with a threshold
\* outside [0, 1], an empty or whitespace-only query, or a negative top_k
\* raises an error at the call and returns no value.
C16_ProgrammingErrorsRaise ==
    (AfterMapDrugName \/ AfterGetDrugSuggestions) =>
        \A query \in MapperQueries, threshold \in Thresholds,
           top_k \in TopKs, query_embedding \in Angles, ties \in TieOrders :
            ProgrammingError(query, threshold, top_k) =>
                /\ MapDrugName(TheMapper, query, threshold, top_k,
                               query_embedding, ties).exc # ""
                /\ GetDrugSuggestions(TheMapper, query, top_k, threshold,
                                      query_embedding, ties).exc # ""


\* get_drug_mapper has just returned and it called load_embeddings, on a
\* new DrugNameMapper
AfterLoadEmbeddings == mlast.op = "get_drug_mapper" /\ mlast.load # ""

\* the index can be obtained from the bundle
BundleUsable == disk.pkl.state = "ok"

\* the index can be reconstructed from the array and the sidecar
SeparateFilesUsable == disk.json.state = "ok" /\ disk.npy.state = "ok"

\* C17: load_embeddings returns True with is_loaded set whenever the bundle
\* or the separate array and sidecar files are usable (it falls back to the
\* separate files when the index cannot be obtained from the bundle), and
\* returns False with is_loaded unset only when neither source is usable.
C17_LoadFallsBack ==
    AfterLoadEmbeddings =>
        IF BundleUsable \/ SeparateFilesUsable
        THEN mlast.load = "True" /\ TheMapper.is_loaded
        ELSE mlast.load = "False" /\ ~TheMapper.is_loaded


\* the name list and the vector list of an index are of equal length, and
\* the name -> index map points at the names
Aligned(index) ==
    /\ index.embeddings # NoEmbeddings
    /\ Len(index.embeddings) = Len(index.drug_names)
    /\ \A pair \in index.drug_to_index :
           index.drug_names[pair[2] + 1] = pair[1]

C19_NoPartialMapper ==
    \A t \in Threads :
        threads[t].pc = "done" => threads[t].ret = 0 \/ threads[t].loaded


---------------------------------------------------------------------------
(* What the claims speak of, stated on the threads *)

\* every call the threads made has returned
AllReturned == \A t \in Threads : threads[t].pc \in {"done", "read"}

\* a vertex exists whose name attributes are not (both) set
VertexWithoutNames ==
    \E i \in 1..Len(vs) : vs[i].name = NoId \/ vs[i].name_normalized = NoId

\* a vertex exists that the index does not lead to
VertexNotInIndex ==
    \E i \in 1..Len(vs) :
        \/ vs[i].name_normalized \notin DOMAIN name_to_vertex
        \/ name_to_vertex[vs[i].name_normalized] # i - 1

\* a get_stats call returned the drugs of an upsert without its interaction
ReadEndpointsWithoutEdge ==
    \E t \in Threads :
        /\ threads[t].pc = "read"
        /\ threads[t].obs.drugs > 0
        /\ threads[t].obs.interactions = 0

\* two vertices carry the same normalized name
DuplicateNormalizedName ==
    \E i, j \in 1..Len(vs) :
        i < j /\ vs[i].name_normalized = vs[j].name_normalized

\* two edges join the same pair of vertices
ParallelEdges ==
    \E i, j \in 1..Len(es) :
        /\ i < j
        /\ {es[i].source, es[i].target} = {es[j].source, es[j].target}

\* C18: with add_interaction running concurrently with other add_interaction
\* calls and with reads of the same graph, a read never observes a vertex
\* without its name attributes, a vertex missing from the index, or the
\* endpoints of an upsert without its edge; and once all upserts have
\* completed, no two vertices share a normalized name and no two edges join
\* the same pair.
C18_UpsertsSerialized ==
    /\ ~VertexWithoutNames
    /\ ~VertexNotInIndex
    /\ ~ReadEndpointsWithoutEdge
    /\ AllReturned => ~DuplicateNormalizedName /\ ~ParallelEdges

---------------------------------------------------------------------------
(* Claims on the display names, the queries and the index *)

\* the display names of the vertices that an edge of g joins to vertex v
AdjacentNames(g, v) ==
    {g.vs[u + 1].name : u \in
        {u \in 0..(vcount(g) - 1) :
            \E i \in 1..Len(g.es) :
                {g.es[i].source, g.es[i].target} = {v, u}}}

\* C21: the name attribute of a vertex is the trimmed string of the
\* add_interaction call that created it (of its first argument, when both
\* arguments name the new drug), no later add_interaction changes the name
\* of a vertex, whatever variant of the drug's name it uses, and
\* get_all_interactions_for_drug reports the neighbours under these names.
\* The calls are made on every graph the add_interaction calls reach.
C21_FirstSeenDisplayName ==
    AfterAddInteraction =>
        /\ \A drug1 \in Names, drug2 \in Names, condition \in Conditions :
            \E after \in {AddInteraction(Self, drug1, drug2, condition).g} :
                /\ \A i \in 1..Len(vs) : after.vs[i].name = vs[i].name
                /\ \A d \in {drug1, drug2} :
                       \A v \in VerticesOf(after, DrugOf[d]) :
                           v >= Len(vs) =>
                               after.vs[v + 1].name =
                                   Strip(IF SameDrug(drug1, d)
                                         THEN drug1 ELSE drug2)
        /\ \A n \in Names :
               IsVertex(Self, n) =>
                   \E r \in {GetAllInteractionsForDrug(Self, n)} :
                       {r.val[k].drug : k \in 1..Len(r.val)} =
                           AdjacentNames(Self, name_to_vertex[DrugOf[n]])

\* C21 witness: an add_interaction has just met a drug that was created in
\* upper case behind whitespace; the vertex is named "A", the listing of its
\* neighbour reports it as "A", and a call that names it "a" leaves the
\* vertices as they are.
C21_Witness ==
    /\ LastAddUpdated
    /\ \E i \in 1..Len(vs) : vs[i].name = <<"A">>
    /\ \E k \in 1..Len(GetAllInteractionsForDrug(Self, <<"b", " ">>).val) :
           GetAllInteractionsForDrug(Self, <<"b", " ">>).val[k].drug = <<"A">>
    /\ AddInteraction(Self, <<"a">>, <<"b", " ">>, "c2").g.vs = vs



\* a search_all_interactions call has just returned; the call is made on
\* every graph that is reached
AfterSearchAllInteractions == last.op = "search_all_interactions"

\* C25: search_all_interactions(a, b) returns the conditions of exactly the
\* edges that join a and b, nothing of an edge between either drug and a
\* third one, and [] if either drug is unknown; it is non-empty if and only
\* if search_interaction(a, b) is not None.
C25_SearchAllExactlyJoiningEdges ==
    AfterSearchAllInteractions =>
        \A a \in Names, b \in Names :
            \E r \in {SearchAllInteractions(Self, a, b)} :
                /\ r.exc = ""
                /\ ~IsVertex(Self, a) \/ ~IsVertex(Self, b) => r.val = <<>>
                /\ IsVertex(Self, a) /\ IsVertex(Self, b) =>
                       /\ Len(r.val) = Cardinality(EdgesBetween(Self, a, b))
                       /\ \A k \in 1..Len(r.val) :
                              \E i \in EdgesBetween(Self, a, b) :
                                  es[i].condition = r.val[k]
                /\ r.val # <<>> <=> SearchInteraction(Self, a, b).val # None



\* the entries of a listing that report the vertex v
EntriesOf(g, listing, v) ==
    {k \in 1..Len(listing) : listing[k].drug = g.vs[v + 1].name}

\* the listing of drug a holds one entry for each drug that
\* search_interaction finds joined to a, under its display name and with the
\* condition search_interaction returns, and no other entry
ListingAgreesWithSearch(g, a) ==
    \E r \in {GetAllInteractionsForDrug(g, a)} :
        /\ r.exc = ""
        /\ \A b \in Drugs :
               IsVertex(g, b) =>
                   \E s \in {SearchInteraction(g, a, b).val},
                      entries \in {EntriesOf(g, r.val,
                                       g.name_to_vertex[DrugOf[b]])} :
                       IF s = None
                       THEN entries = {}
                       ELSE /\ Cardinality(entries) = 1
                            /\ \A k \in entries : r.val[k].condition = s
        /\ \A k \in 1..Len(r.val) :
               \E b \in Drugs :
                   /\ IsVertex(g, b)
                   /\ k \in EntriesOf(g, r.val, g.name_to_vertex[DrugOf[b]])

\* C29: in every reachable graph, for every known drug a,
\* get_all_interactions_for_drug(a) contains exactly one entry per drug b
\* that search_interaction(a, b) finds joined to a (b = a included), the
\* entry carries b's display name and the condition search_interaction(a, b)
\* returns, and the list contains no other entries.
C29_ListingAgreesWithLookup ==
    AfterGetAllInteractionsForDrug =>
        \A a \in Names : IsVertex(Self, a) => ListingAgreesWithSearch(Self, a)



\* the last call was one of the four queries
AfterQuery ==
    last.op \in {"search_interaction", "search_all_interactions",
                 "get_all_interactions_for_drug", "get_stats"}

C28_IndexIsBijection ==
    /\ \A v \in 0..(Len(vs) - 1) :
           /\ vs[v + 1].name_normalized \in DOMAIN name_to_vertex
           /\ name_to_vertex[vs[v + 1].name_normalized] = v
    /\ \A k \in DOMAIN name_to_vertex :
           /\ name_to_vertex[k] \in 0..(Len(vs) - 1)
           /\ vs[name_to_vertex[k] + 1].name_normalized = k

\* C28 witness: add_interaction has just added a vertex to a graph that was
\* constructed from an exported file: one vertex carries the id the file
\* gave it, another has none, and one was inserted in upper case.
C28_Witness ==
    /\ last.op = "add_interaction"
    /\ \E i \in 1..Len(vs) : vs[i].id # NoId
    /\ \E i \in 1..Len(vs) : vs[i].id = NoId
    /\ \E i \in 1..Len(vs) : vs[i].name = <<"A">>


---------------------------------------------------------------------------
(* Claims on the medicine cabinet *)

AfterAddDrug == clast.op = "add_drug"

\* Names of the sequence s
Listed(s) == { s[i] : i \in 1..Len(s) }

\* C22: add_drug(user, name) returns True if the drug was added and False
\* if it is already in the user's cabinet: after any add_drug(user, name),
\* whatever it returned, the same call made again returns False and leaves
\* the cabinet as it is, whether name mapping rewrites the name or not.
C22_SecondAddReturnsFalse ==
    AfterAddDrug =>
        \A again \in { AddDrug(Manager, mappers, drug_mapper, disk, encoder,
                               ties, clast.user_id, clast.drug_name) :
                       ties \in TieOrders } :
            /\ again.val = "False"
            /\ again.exc = ""
            /\ again.self.cabinets = cabinets

\* C23: remove_drug(user, name) returns True or False and never raises;
\* after an add_drug(user, name) that returned True, remove_drug(user, name)
\* returns True, get_drugs(user) lists neither the name nor what it was
\* stored as, and get_interactions_for_drug(user, name) is empty.
C23_RemoveAfterAdd ==
    /\ clast.op = "remove_drug" =>
           clast.exc = "" /\ clast.val \in {"True", "False"}
    /\ AfterAddDrug /\ clast.val = "True" =>
        \A ties \in TieOrders :
          \A removed \in { RemoveDrug(Manager, mappers, drug_mapper, disk,
                               encoder, ties, clast.user_id,
                               clast.drug_name) } :
            /\ removed.exc = ""
            /\ removed.val = "True"
            /\ \A stored \in { CabinetMapDrugName(mappers, drug_mapper, disk,
                                   encoder, ties, clast.drug_name).val } :
                  {clast.drug_name, stored}
                      \cap Listed(GetDrugs(removed.self, clast.user_id)) = {}
            /\ GetInteractionsForDrug(removed.self, removed.mappers,
                   removed.drug_mapper, disk, encoder, ties, clast.user_id,
                   clast.drug_name).val = <<>>

---------------------------------------------------------------------------
(* Claims on the agents and their manager *)

AfterMapMultipleDrugs == alast.op = "map_multiple_drugs"

\* C24: map_multiple_drugs returns a mapping with one entry for each input
\* name; no value is None, and the entry of a name n is what
\* map_drug_name(n) returns: the standardized name when a mapping is found
\* and n otherwise.
C24_MapMultipleAgreesWithSingle ==
    AfterMapMultipleDrugs =>
        \A ties \in TieOrders :
          \A result \in { AgentMapMultipleDrugs(agents[agent], mappers,
                              alast.drug_names, encoder, ties).val } :
            /\ DOMAIN result = ListSet(alast.drug_names)
            /\ \A n \in DOMAIN result :
                  /\ result[n] # NoneName
                  /\ result[n] = AgentMapDrugName(agents[agent], mappers, n,
                                                  encoder, ties).val


AfterGetOrCreateSession ==
    alast.op = "get_or_create_session" /\ alast.exc = ""

\* C27: get_active_sessions_count() is 0 on a fresh manager and always the
\* number of session ids created and not cleared since; a
\* get_or_create_session that returns gives the agent the id was created
\* with, and so does the same call made again, which creates nothing;
\* clear_session(id) returns True exactly when id has a session or a saved
\* answer, and leaves id with neither.
C27_SessionBookkeeping ==
    /\ alast.op = "init" => GetActiveSessionsCount(TheAgentManager) = 0
    /\ GetActiveSessionsCount(TheAgentManager) = Cardinality(DOMAIN live)
    /\ AfterGetOrCreateSession =>
          /\ alast.val[1] \in DOMAIN live
          /\ alast.val[2] = live[alast.val[1]]
          /\ \A uuid \in Uuids :
              \A again \in { GetOrCreateSession(TheAgentManager, mappers,
                                 drug_mapper, disk, alast.val[1], uuid) } :
                 /\ again.val = alast.val
                 /\ again.exc = ""
                 /\ again.self = TheAgentManager
    /\ alast.op = "clear_session" =>
          alast.session_id \notin DOMAIN sessions \cup DOMAIN query_answers
    /\ \A session_id \in SessionIds \cup Uuids, uuid \in Uuids :
        \A cleared \in { ClearSession(TheAgentManager, session_id, uuid) } :
           /\ cleared.exc = ""
           /\ cleared.val = Bool(\/ session_id \in DOMAIN sessions
                                 \/ session_id \in DOMAIN query_answers)
           /\ session_id \notin DOMAIN cleared.self.sessions
           /\ session_id \notin DOMAIN cleared.self.query_answers

\* a session was cleared that had a saved answer, while another session
\* and another answer remain
C27_Witness ==
    /\ alast.op = "clear_session"
    /\ alast.val = "True"
    /\ GetActiveSessionsCount(TheAgentManager) = 1
    /\ query_answers # <<>>
    /\ DOMAIN query_answers # DOMAIN sessions

---------------------------------------------------------------------------
(* Claims on the agent workflow *)

\* the steps of a run from the first agent step to the last: agent and
\* tools in turn
AgentAndTools(steps) ==
    /\ Len(steps) % 2 = 1
    /\ \A i \in 1..Len(steps) :
          steps[i] = IF i % 2 = 1 THEN "agent" ELSE "tools"

\* C26: every run starts at the agent node; no step but an agent step
\* follows a tools step, and after a tools step the run goes on to the
\* agent node; when the agent asks for no tool the translator runs next and
\* the parser after it, and then the run ends: a finished run is agent and
\* tools steps in turn, ending with an agent step, then one translator
\* step, then one parser step.
C26_WorkflowOrder ==
    LET steps == run.steps
        n == Len(steps)
    IN  /\ n > 0 => steps[1] = "agent"
        /\ n = 0 /\ run.status = "running" => run.next = "agent"
        /\ \A i \in 1..(n - 1) : steps[i] = "tools" => steps[i + 1] = "agent"
        /\ n > 0 /\ steps[n] = "tools" =>
              \/ run.status = "running" /\ run.next = "agent"
              \/ run.status = "error" /\ n = MaxSteps
        /\ /\ n > 0
           /\ steps[n] = "agent"
           /\ run.st.messages[Len(run.st.messages)] = "ai"
           /\ run.status = "running"
           => run.next = "translator"
        /\ \A i \in 1..n :
              /\ steps[i] = "translator" =>
                    /\ i > 1 /\ steps[i - 1] = "agent"
                    /\ i < n => steps[i + 1] = "parser"
                    /\ i = n =>
                          \/ run.status = "running" /\ run.next = "parser"
                          \/ run.status = "error" /\ n = MaxSteps
              /\ steps[i] = "parser" =>
                    /\ i > 1 /\ steps[i - 1] = "translator"
                    /\ i = n
                    /\ run.status = "end"
        /\ run.status = "end" =>
              /\ n >= 3
              /\ AgentAndTools(SubSeq(steps, 1, n - 2))
              /\ steps[n - 1] = "translator"
              /\ steps[n] = "parser"

\* a run that called a tool has finished
C26_Witness ==
    /\ run.status = "end"
    /\ \E i \in 1..Len(run.steps) : run.steps[i] = "tools"

=============================================================================
